---- MODULE Spec2Model ----
(***************************************************************************)
(* Flash-loan arbitrage bot: the Opportunity Scanner                       *)
(* (server/opportunityScanner.ts) and the Trade Executor                   *)
(* (server/tradeExecutor.ts, kept as unnamed/part_002).                    *)
(*                                                                         *)
(* Three specifications share the module:                                  *)
(*   Spec      the scanner object: startScanning / stopScanning calls,     *)
(*             the interval timers, the scan cycles with their await       *)
(*             points, the Registry and the dispatched executions;         *)
(*   SpecScan  one scanning session (one startScanning call) with every    *)
(*             outcome of the quotes, configuration saves and the clock;   *)
(*   SpecExec  one executeArbitrageTrade attempt, stage by stage, for      *)
(*             every stored configuration and every outcome of the chain   *)
(*             RPC, the route service, the flash loan and the notifier.    *)
(*                                                                         *)
(* Numbers.  The code computes on IEEE doubles; the model computes the     *)
(* same expressions exactly, on integers:                                  *)
(*   - a quote's toAmount is given per PriceUnit of fromAmount, so         *)
(*     price = toAmount / PriceUnit;                                       *)
(*   - USD amounts are held in units of 1e-5 USD ("E5");                   *)
(*   - percent thresholds are held in 1/100 percent, USD thresholds in     *)
(*     cents; every comparison is cross-multiplied, never divided.         *)
(*                                                                         *)
(* Environment.  The chain RPC, the quote/route service, the flash-loan    *)
(* call and the notifier may fail at every call.  The storage collaborator *)
(* may fail inside startScanning (the call has no handler of its own);     *)
(* inside a scan cycle and inside an execution attempt its reads and       *)
(* writes return.  Opportunity ids (`pair-Date.now()-random`) are fresh.   *)
(***************************************************************************)
EXTENDS Integers, Sequences, FiniteSets, TLC

VARIABLES
  \* ---- OpportunityScanner object and its environment (Spec)
  isScanning,      \* private isScanning
  scanInterval,    \* private scanInterval: a timer handle, or NoTimer
  opportunities,   \* private opportunities: Map id -> ArbitrageOpportunity
  timers,          \* interval timers alive in the event loop
  botConfig,       \* the stored configuration, or NoConfig
  now,             \* Date.now(), in ms
  starts,          \* startScanning calls in progress or ended
  cycles,          \* scan() calls in progress or ended
  inflight,        \* executeArbitrageTrade promises dispatched, not settled
  nextId,          \* next fresh opportunity id
  inserted,        \* history: ids ever written by opportunities.set
  stopped,         \* history: stopScanning ran and no startScanning was called since
  \* ---- one executeArbitrageTrade attempt (SpecExec)
  epc,             \* stage the attempt is at
  ecfg,            \* storage.getBotConfig result for the attempt
  eenv,            \* process.env: PRIVATE_KEY, ARBITRAGE_CONTRACT
  eopp,            \* the opportunity snapshot handed to the attempt
  isSimulation,    \* the isSimulation argument
  privateKey,      \* local privateKey after normalisation
  swaps,           \* buySwap / sellSwap as returned by the route service
  contractCode,    \* local contractCode: what provider.getCode returned
  calls,           \* external calls made so far, in order
  wire,            \* what the route and flash-loan calls were given and returned
  logs,            \* createActivityLog entries written so far, in order
  records,         \* createArbitrageTransaction records written so far, in order
  result,          \* the TradeExecutionResult returned, or NoResult
  \* ---- the ArbitrageExecutor contract (SpecContract)
  owner,             \* Ownable's owner()
  approvedExecutors, \* mapping(address => bool) approvedExecutors
  totalProfits,      \* uint256 totalProfits
  balances,          \* the contract's native balance and its balance of the asset
  tx,                \* the last transaction sent to the contract, and how it ended
  op,                \* the executeOperation call of that transaction, or NoOp
  auth               \* the authorizeExecutor call in progress or last returned

svars == <<isScanning, scanInterval, opportunities, timers, botConfig, now,
           starts, cycles, inflight, nextId, inserted, stopped>>
evars == <<epc, ecfg, eenv, eopp, isSimulation, privateKey, swaps,
           contractCode, calls, wire, logs, records, result>>
cvars == <<owner, approvedExecutors, totalProfits, balances, tx, op, auth>>
vars == <<svars, evars, cvars>>

\* ------------------------------------------------------------------ bounds
MaxStarts == 2     \* startScanning calls in one behaviour
MaxCycles == 2     \* scan() calls in one behaviour
MaxTicks == 2      \* clock steps in one behaviour
MaxUint == 4       \* type(uint256).max, scaled down

\* One clock step, in ms: twice the default scan interval.
TimeStep == 60 * 1000

\* toAmount is given per PriceUnit of fromAmount.
PriceUnit == 10 * 100

\* E5 units per USD.
E5 == 100 * 1000

Missing == -1      \* an unset column of the stored configuration
NoConfig == [none |-> TRUE]
NoTimer == 0

\* ------------------------------------------------ program constants (scanner)
StaleMs == 60000             \* now - opp.timestamp > 60000
EstimatedGas == 500000       \* estimatedGas
DefaultMinProfitPct == 30    \* '0.3'  (1/100 %)
DefaultMinNetProfitPct == 15 \* '0.15' (1/100 %)
DefaultMinProfitUsd == 150   \* '1.5'  (cents)
DefaultMaxGasGwei == 60      \* || 60
DefaultLoanAmount == 10000   \* || 10000

Abs(x) == IF x < 0 THEN -x ELSE x
Min2(a, b) == IF a < b THEN a ELSE b
Max2(a, b) == IF a > b THEN a ELSE b

\* `v || d` on a number column: unset and 0 both give the default.
OrDefault(v, d) == IF v = Missing \/ v = 0 THEN d ELSE v
\* parseFloat(v?.toString() || d): only unset gives the default ('0' is truthy).
ParseOr(v, d) == IF v = Missing THEN d ELSE v

\* A field of the stored configuration, Missing when there is no configuration
\* (botConfig?.field).
Field(cfg, f) == IF cfg = NoConfig THEN Missing ELSE cfg[f]

\* ------------------------------------------------------------- credentials
\* A private-key string: its length after trim(), whether it starts with
\* '0x', and whether ethers accepts its digits.  A null, empty or blank
\* string has length 0 (falsy).
Key(len, has0x, hex) == [len |-> len, has0x |-> has0x, hex |-> hex]
NoKey == Key(0, FALSE, TRUE)

\* ------------------------------------------------------ stored configuration
\* shared/schema.ts botConfig columns the scanner and the executor read.
BaseConfig ==
  [ minProfitPercent |-> Missing, minNetProfitPercent |-> Missing,
    minNetProfitUsd |-> Missing, maxGasPriceGwei |-> Missing,
    flashLoanAmount |-> Missing, useSimulation |-> "unset",
    enableRealTrading |-> FALSE, privateKey |-> NoKey,
    oneinchApiKey |-> FALSE, flashLoanContract |-> FALSE,
    telegramProfitThresholdUsd |-> Missing ]

\* Stored configurations the scanner runs against: none (every default applies);
\* a net-percent threshold of 1.5 % in real mode with a 50 Gwei ceiling;
\* a USD threshold of 200 USD in simulation mode.
ScanConfigs ==
  { NoConfig,
    [BaseConfig EXCEPT !.minNetProfitPercent = 150, !.useSimulation = "false",
                       !.maxGasPriceGwei = 50],
    [BaseConfig EXCEPT !.minNetProfitUsd = 20000, !.useSimulation = "true"] }

\* web3Provider.getGasPrice() readings, in Gwei.
GasReadings == {40, 80}

\* getDefaultTokenPairs (its first pair)
TokenPairs == <<"USDC/USDT">>
\* A tokenPairs list sent in the body of POST /api/scanner/start.
RequestPairs == <<"USDC/USDT", "USDC/DAI">>

\* The config argument of startScanning: none, or the request body.
NoRequest == [none |-> TRUE]
Requests == { NoRequest, [tokenPairs |-> RequestPairs] }

\* The venue name DexAggregator.getQuote puts on a quote ("DEX 1 - 1inch/QuickSwap").
BaseDexName == "1inch"

NoQuote == [ok |-> FALSE]
Quote(t, d) == [ok |-> TRUE, toAmount |-> t, dex |-> d]

\* dexAggregator.getQuote: the base price.
Q1 == Quote(PriceUnit, BaseDexName)
\* simulateSecondDexQuote: the base price moved by 0.5 % .. 2 % either way
\* (here -1.2 %, +1.2 %), venue SushiSwap or Uniswap V3.
Q2Low == Quote(PriceUnit - 12, "SushiSwap")
Q2High == Quote(PriceUnit + 12, "Uniswap V3")
\* simulateThirdDexQuote: the base price moved by 0.3 % .. 1.5 % either way
\* (here +0.3 %), venue Balancer or Curve.
Q3 == Quote(PriceUnit + 3, "Curve")

\* Promise.allSettled([getQuote, simulateSecondDexQuote, simulateThirdDexQuote]):
\* the settled triples a session draws from.  Each venue fails in some triple,
\* each pair of venues is compared in some triple, the cheaper quote comes
\* first in some and second in others.
QuoteTriples ==
  { <<Q1, Q2Low, NoQuote>>,
    <<Q1, NoQuote, Q3>>,
    <<Q1, Q2High, Q3>>,
    <<NoQuote, NoQuote, Q3>> }
\* The settled triples the lifecycle specification draws from: two venues
\* 1.2 % apart and the third failed, or every venue failed.
FewQuoteTriples ==
  { <<Q1, Q2High, NoQuote>>,
    <<NoQuote, NoQuote, NoQuote>> }

\* -------------------------------------------------------------- comparator
\* startScanning: the ScannerConfig built from the stored configuration.
ScannerConfig(cfg) ==
  [ minProfitPercent    |-> ParseOr(Field(cfg, "minProfitPercent"), DefaultMinProfitPct),
    minNetProfitPercent |-> ParseOr(Field(cfg, "minNetProfitPercent"), DefaultMinNetProfitPct),
    minProfitUsd        |-> ParseOr(Field(cfg, "minNetProfitUsd"), DefaultMinProfitUsd),
    maxGasPriceGwei     |-> OrDefault(Field(cfg, "maxGasPriceGwei"), DefaultMaxGasGwei),
    tokenPairs          |-> TokenPairs ]

\* tokenPairs: config.tokenPairs || this.getDefaultTokenPairs(), ...config
Override(config, request) ==
  IF request = NoRequest THEN config
  ELSE [config EXCEPT !.tokenPairs = request.tokenPairs]

\* scanTokenPair: botConfig?.flashLoanAmount || 10000
LoanAmount(cfg) == OrDefault(Field(cfg, "flashLoanAmount"), DefaultLoanAmount)

\* gasCostUsd = 500000 * floor(gasGwei * 1e9) wei, in ether, times 0.7 USD  (E5)
GasCostUsd(gasGwei) == (EstimatedGas * gasGwei * 7) \div E5
\* flashLoanFeeUsd = loanAmount * 0.0005  (E5)
FlashLoanFeeUsd(loan) == loan * 50
PriceDiffSigned(q1, q2) == q1.toAmount - q2.toAmount

\* priceDiff = |price1 - price2|  (per PriceUnit)
PriceDiff(q1, q2) == Abs(q1.toAmount - q2.toAmount)
\* grossProfitUsd = priceDiff * loanAmount  (E5)
GrossProfitUsd(q1, q2, loan) == PriceDiff(q1, q2) * loan * (E5 \div PriceUnit)
\* netProfitUsd = grossProfitUsd - gasCostUsd - flashLoanFeeUsd  (E5)
NetProfitUsd(q1, q2, loan, gasGwei) ==
  GrossProfitUsd(q1, q2, loan) - GasCostUsd(gasGwei) - FlashLoanFeeUsd(loan)

\* profitPercent = priceDiff / avgPrice * 100 = 200 |t1 - t2| / (t1 + t2),
\* as the fraction n / d.
ProfitPercent(q1, q2) ==
  [n |-> 200 * PriceDiff(q1, q2), d |-> q1.toAmount + q2.toAmount]
\* netProfitPercent = netProfitUsd / loanAmount * 100 = netE5 / (1000 loan)
NetProfitPercent(q1, q2, loan, gasGwei) ==
  [n |-> NetProfitUsd(q1, q2, loan, gasGwei), d |-> 1000 * loan]

\* profitPercent >= m/100, with profitPercent = n / d: a zero denominator is
\* NaN, and NaN >= m is false.
ProfitPercentGE(r, m) == r.d > 0 /\ r.n * 100 >= m * r.d
\* netProfitPercent >= m/100, with netProfitPercent = n / d and d = 1000 loan.
NetProfitPercentGE(r, m) == r.d > 0 /\ r.n >= m * (r.d \div 100)
\* netProfitUsd (E5) >= u cents
ProfitUsdGE(usd, u) == usd >= u * (E5 \div 100)

ProfitableNoUsd(q1, q2, config, loan, gasGwei) ==
  /\ ProfitPercentGE(ProfitPercent(q1, q2), config.minProfitPercent)
  /\ NetProfitPercentGE(NetProfitPercent(q1, q2, loan, gasGwei),
                        config.minNetProfitPercent)

\* scanTokenPair, "Check if profitable": the three thresholds.
Profitable(q1, q2, config, loan, gasGwei) ==
  /\ ProfitPercentGE(ProfitPercent(q1, q2), config.minProfitPercent)
  /\ NetProfitPercentGE(NetProfitPercent(q1, q2, loan, gasGwei),
                        config.minNetProfitPercent)
  /\ ProfitUsdGE(NetProfitUsd(q1, q2, loan, gasGwei), config.minProfitUsd)

BuyDexSwapped(q1, q2) == IF q1.toAmount < q2.toAmount THEN q2.dex ELSE q1.dex

\* buyDex = price1 < price2 ? quote1.dex : quote2.dex
BuyDex(q1, q2) == IF q1.toAmount < q2.toAmount THEN q1.dex ELSE q2.dex
\* sellDex = price1 < price2 ? quote2.dex : quote1.dex
SellDex(q1, q2) == IF q1.toAmount < q2.toAmount THEN q2.dex ELSE q1.dex

\* The ArbitrageOpportunity object scanTokenPair builds for quotes q1, q2.
Opportunity(id, pair, q1, q2, loan, gasGwei, ts) ==
  [ id |-> id, pair |-> pair,
    buyDex |-> BuyDex(q1, q2), sellDex |-> SellDex(q1, q2),
    buyPrice |-> Min2(q1.toAmount, q2.toAmount),
    sellPrice |-> Max2(q1.toAmount, q2.toAmount),
    profitPercent |-> ProfitPercent(q1, q2),
    netProfitPercent |-> NetProfitPercent(q1, q2, loan, gasGwei),
    estimatedProfitUsd |-> NetProfitUsd(q1, q2, loan, gasGwei),
    flashLoanAmount |-> loan,
    estimatedGasCostUsd |-> GasCostUsd(gasGwei),
    flashLoanFeeUsd |-> FlashLoanFeeUsd(loan),
    timestamp |-> ts, isValid |-> TRUE ]

\* The (i, j) index pairs of the comparison loops, in loop order.
IndexPairs == <<<<1, 2>>, <<1, 3>>, <<2, 3>>>>

RECURSIVE ComparisonsBreak(_, _, _, _, _, _, _)
ComparisonsBreak(k, pair, quotes, config, loan, gasGwei, firstId) ==
  IF k > Len(IndexPairs) THEN <<>>
  ELSE LET q1 == quotes[IndexPairs[k][1]]
           q2 == quotes[IndexPairs[k][2]]
       IN IF ~(q1.ok /\ q2.ok)
          THEN <<>>
          ELSE LET hit == Profitable(q1, q2, config, loan, gasGwei)
               IN <<[pair |-> pair, q1 |-> q1, q2 |-> q2, loan |-> loan,
                     id |-> IF hit THEN firstId ELSE 0]>>
                  \o ComparisonsBreak(k + 1, pair, quotes, config, loan, gasGwei,
                                      IF hit THEN firstId + 1 ELSE firstId)

\* One pass of the comparison loops over the settled quotes of a pair: the
\* comparisons made (both quotes fulfilled), each with the id of the opportunity
\* pushed for it, or 0.  Ids are handed out from firstId in loop order.
RECURSIVE Comparisons(_, _, _, _, _, _, _)
Comparisons(k, pair, quotes, config, loan, gasGwei, firstId) ==
  IF k > Len(IndexPairs) THEN <<>>
  ELSE LET q1 == quotes[IndexPairs[k][1]]
           q2 == quotes[IndexPairs[k][2]]
       IN IF ~(q1.ok /\ q2.ok)
          THEN Comparisons(k + 1, pair, quotes, config, loan, gasGwei, firstId)
          ELSE LET hit == Profitable(q1, q2, config, loan, gasGwei)
               IN <<[pair |-> pair, q1 |-> q1, q2 |-> q2, loan |-> loan,
                     id |-> IF hit THEN firstId ELSE 0]>>
                  \o Comparisons(k + 1, pair, quotes, config, loan, gasGwei,
                                 IF hit THEN firstId + 1 ELSE firstId)

\* scanTokenPair's result: the opportunities pushed, in loop order.
RECURSIVE OppsOf(_, _, _, _)
OppsOf(cmps, k, gasGwei, ts) ==
  IF k > Len(cmps) THEN <<>>
  ELSE (IF cmps[k].id = 0 THEN <<>>
        ELSE <<Opportunity(cmps[k].id, cmps[k].pair, cmps[k].q1, cmps[k].q2,
                           cmps[k].loan, gasGwei, ts)>>)
       \o OppsOf(cmps, k + 1, gasGwei, ts)

CountHits(cmps) == Cardinality({k \in 1..Len(cmps) : cmps[k].id # 0})

\* A scanTokenPair call whose try body threw before its quotes settled: the
\* catch logs and the call returns no opportunity.
PairFailed == <<>>

\* scan, "Scan each token pair across all DEXs": the comparisons of every pair
\* of config.tokenPairs, pair after pair (results.forEach pushes them in pair
\* order).
RECURSIVE ScanPairs(_, _, _, _, _, _)
ScanPairs(p, quotesOf, config, loan, gasGwei, firstId) ==
  IF p > Len(config.tokenPairs) THEN <<>>
  ELSE LET cmps == IF quotesOf[p] = PairFailed THEN <<>>
                   ELSE Comparisons(1, config.tokenPairs[p], quotesOf[p], config,
                                    loan, gasGwei, firstId)
       IN cmps \o ScanPairs(p + 1, quotesOf, config, loan, gasGwei,
                            firstId + CountHits(cmps))

\* ------------------------------------------------------------ scanner state
\* A startScanning call: where it is, and the ScannerConfig it resolved.
\*   "cfg"      awaiting storage.getBotConfig
\*   "log"      isScanning set, awaiting the scanner-start log write
\*   "scan"     awaiting the initial scan (cycle `cycle`)
\*   "done"     setInterval installed, call returned
\*   "running"  returned at once: scanner already running
\*   "failed"   rejected by a storage failure
\* request is the config argument of the call.
StartCallRec(pc) ==
  [pc |-> pc, request |-> NoRequest, config |-> NoConfig, cycle |-> 0]

\* A scan() call.
\*   "gate"      awaiting the step-1 log and web3Provider.getGasPrice
\*   "fetch"     gas accepted, awaiting the quotes of every pair
\*   "dispatch"  in the loop over newOpportunities, before opportunities.set
\*   "exec"      opportunity set and broadcast, awaiting getBotConfig and the log
\*   "done"      returned
\* config, gasGwei, quotes (the settled dexQuotes of every pair), cmps (the
\* comparisons made), opps (newOpportunities) and idx (the loop position) are
\* the call's locals, start is the startScanning
\* call whose closure made the call; the other fields count what the call did.
NewCycle(config, kind, s) ==
  [ pc |-> "gate", config |-> config, kind |-> kind, start |-> s,
    outcome |-> "running", gasGwei |-> 0, quotes |-> <<>>, cmps |-> <<>>,
    opps |-> <<>>, idx |-> 1,
    skipLogs |-> 0, errLogs |-> 0, quoteReqs |-> 0,
    nInserted |-> 0, nDispatched |-> 0 ]

\* A call that returned: its locals are gone, its counts stay.
Returned(cyc, outcome) ==
  [cyc EXCEPT !.pc = "done", !.outcome = outcome, !.config = NoConfig,
              !.start = 0, !.gasGwei = 0, !.quotes = <<>>, !.cmps = <<>>,
              !.opps = <<>>, !.idx = 1]

ScannerInit ==
  /\ isScanning = FALSE
  /\ scanInterval = NoTimer
  /\ opportunities = <<>>
  /\ timers = {}
  /\ botConfig \in ScanConfigs
  /\ now = 0
  /\ starts = <<>>
  /\ cycles = <<>>
  /\ inflight = {}
  /\ nextId = 1
  /\ inserted = {}
  /\ stopped = FALSE

\* ------------------------------------------------------------ startScanning
\* startScanning is called (POST /api/bot/start, POST /api/scanner/start):
\* `if (this.isScanning) return`, else the call awaits the configuration read.
StartScanningWith(request) ==
  /\ Len(starts) < MaxStarts
  /\ starts' = Append(starts,
                      [StartCallRec(IF isScanning THEN "running" ELSE "cfg")
                         EXCEPT !.request = request])
  /\ stopped' = FALSE
  /\ UNCHANGED <<cvars, evars, isScanning, scanInterval, opportunities, timers, botConfig, now,
                 cycles, inflight, nextId, inserted>>

\* POST /api/bot/start: startScanning(userId), no config argument.
StartScanning == StartScanningWith(NoRequest)

\* The first startScanning call of a session.
StartSession == starts = <<>> /\ StartScanning

\* POST /api/scanner/start with a request body: the first startScanning call
\* of a session, with the body as its config argument.
StartSessionWith(request) == starts = <<>> /\ StartScanningWith(request)

\* getBotConfig resolved: build scannerConfig, set isScanning, start the log write.
StartConfigured(s) ==
  /\ starts[s].pc = "cfg"
  /\ starts' = [starts EXCEPT ![s].pc = "log",
                              ![s].config =
                                Override(ScannerConfig(botConfig), starts[s].request)]
  /\ isScanning' = TRUE
  /\ UNCHANGED <<cvars, evars, scanInterval, opportunities, timers, botConfig, now, cycles,
                 inflight, nextId, inserted, stopped>>

\* getBotConfig or the scanner-start log write rejected: the call rejects at
\* its await, leaving the object as it is.
StartStorageFailed(s) ==
  /\ starts[s].pc \in {"cfg", "log"}
  /\ starts' = [starts EXCEPT ![s].pc = "failed"]
  /\ UNCHANGED <<cvars, evars, isScanning, scanInterval, opportunities, timers, botConfig, now,
                 cycles, inflight, nextId, inserted, stopped>>

\* The log write resolved: the initial scan is called (`await this.scan(...)`).
StartInitialScan(s) ==
  /\ starts[s].pc = "log"
  /\ Len(cycles) < MaxCycles
  /\ cycles' = Append(cycles, NewCycle(starts[s].config, "start", s))
  /\ starts' = [starts EXCEPT ![s].pc = "scan", ![s].cycle = Len(cycles) + 1]
  /\ UNCHANGED <<cvars, evars, isScanning, scanInterval, opportunities, timers, botConfig, now,
                 inflight, nextId, inserted, stopped>>

\* The initial scan returned: `this.scanInterval = setInterval(...)`.
\* The timer of call s is named s.
StartInstallTimer(s) ==
  /\ starts[s].pc = "scan"
  /\ cycles[starts[s].cycle].pc = "done"
  /\ timers' = timers \cup {s}
  /\ scanInterval' = s
  /\ starts' = [starts EXCEPT ![s].pc = "done"]
  /\ UNCHANGED <<cvars, evars, isScanning, opportunities, botConfig, now, cycles, inflight,
                 nextId, inserted, stopped>>

\* ------------------------------------------------------------- stopScanning
\* clearInterval(this.scanInterval) when set; isScanning = false.  The log
\* write that follows changes nothing here.
StopScanning ==
  /\ timers' = IF scanInterval # NoTimer THEN timers \ {scanInterval} ELSE timers
  /\ scanInterval' = NoTimer
  /\ isScanning' = FALSE
  /\ stopped' = TRUE
  /\ UNCHANGED <<cvars, evars, opportunities, botConfig, now, starts, cycles, inflight, nextId,
                 inserted>>

\* ---------------------------------------------------------------- scan cycle
TimerFiresRereads(t) ==
  /\ t \in timers
  /\ Len(cycles) < MaxCycles
  /\ cycles' = Append(cycles, NewCycle(ScannerConfig(botConfig), "timer", t))
  /\ UNCHANGED <<cvars, evars, isScanning, scanInterval, opportunities, timers, botConfig, now,
                 starts, inflight, nextId, inserted, stopped>>

\* An installed interval timer fires: its callback calls scan() with the
\* ScannerConfig of the startScanning call that installed it.
TimerFires(t) ==
  /\ t \in timers
  /\ Len(cycles) < MaxCycles
  /\ cycles' = Append(cycles, NewCycle(starts[t].config, "timer", t))
  /\ UNCHANGED <<cvars, evars, isScanning, scanInterval, opportunities, timers, botConfig, now,
                 starts, inflight, nextId, inserted, stopped>>

GasTooHighNever(gasGwei, config) == FALSE

\* if (gasGwei > config.maxGasPriceGwei)
GasTooHigh(gasGwei, config) == gasGwei > config.maxGasPriceGwei

ScanGateErrorStops(c) ==
  /\ cycles[c].pc = "gate"
  /\ \/ /\ cycles' = [cycles EXCEPT
                         ![c] = Returned([@ EXCEPT !.errLogs = @ + 1], "error")]
        /\ timers' = timers \ {scanInterval}
        /\ scanInterval' = NoTimer
     \/ \E g \in GasReadings :
          /\ UNCHANGED <<timers, scanInterval>>
          /\ cycles' =
               IF GasTooHigh(g, cycles[c].config)
               THEN [cycles EXCEPT
                       ![c] = Returned([@ EXCEPT !.skipLogs = @ + 1], "skipped")]
               ELSE [cycles EXCEPT ![c].pc = "fetch", ![c].gasGwei = g]
  /\ UNCHANGED <<cvars, evars, isScanning, opportunities, botConfig, now,
                 starts, inflight, nextId, inserted, stopped>>

\* STEP 1: getGasPrice rejects (caught: one error log, the cycle returns),
\* or reads above the ceiling (one skip log, the cycle returns),
\* or is accepted.
ScanGate(c) ==
  /\ cycles[c].pc = "gate"
  /\ \/ cycles' = [cycles EXCEPT
                      ![c] = Returned([@ EXCEPT !.errLogs = @ + 1], "error")]
     \/ \E g \in GasReadings :
          cycles' =
            IF GasTooHigh(g, cycles[c].config)
            THEN [cycles EXCEPT
                    ![c] = Returned([@ EXCEPT !.skipLogs = @ + 1], "skipped")]
            ELSE [cycles EXCEPT ![c].pc = "fetch", ![c].gasGwei = g]
  /\ UNCHANGED <<cvars, evars, isScanning, scanInterval, opportunities, timers, botConfig, now,
                 starts, inflight, nextId, inserted, stopped>>

\* STEP 2-4: every pair is scanned (three quote requests each), the settled
\* results are gathered into newOpportunities.  The loan amount is read from
\* the stored configuration by scanTokenPair, the thresholds from the cycle's
\* ScannerConfig; ids are fresh, timestamps are Date.now().
ScanFetchFrom(c, triples) ==
  /\ cycles[c].pc = "fetch"
  /\ \E quotesOf \in [1..Len(cycles[c].config.tokenPairs) -> triples] :
       LET cmps == ScanPairs(1, quotesOf, cycles[c].config, LoanAmount(botConfig),
                             cycles[c].gasGwei, nextId)
           opps == OppsOf(cmps, 1, cycles[c].gasGwei, now)
           reqs == 3 * Cardinality({p \in DOMAIN quotesOf : quotesOf[p] # PairFailed})
       IN /\ cycles' = [cycles EXCEPT ![c].pc = "dispatch", ![c].quotes = quotesOf,
                                      ![c].cmps = cmps, ![c].opps = opps,
                                      ![c].idx = 1, ![c].quoteReqs = @ + reqs]
          /\ nextId' = nextId + Len(opps)
  /\ UNCHANGED <<cvars, evars, isScanning, scanInterval, opportunities, timers, botConfig, now,
                 starts, inflight, inserted, stopped>>

ScanFetch(c) == ScanFetchFrom(c, QuoteTriples)
ScanFetchFew(c) == ScanFetchFrom(c, FewQuoteTriples)
\* The quote fetch where the scan of a pair can also fail as a whole.
ScanFetchOrFail(c) == ScanFetchFrom(c, QuoteTriples \cup {PairFailed})

\* Loop body, first half: this.opportunities.set(opp.id, opp), the callback and
\* the broadcast; then the loop awaits getBotConfig and the intent log.
ScanInsert(c) ==
  /\ cycles[c].pc = "dispatch"
  /\ cycles[c].idx <= Len(cycles[c].opps)
  /\ LET opp == cycles[c].opps[cycles[c].idx]
     IN /\ opportunities' =
             [i \in DOMAIN opportunities \cup {opp.id} |->
                IF i = opp.id THEN opp ELSE opportunities[i]]
        /\ inserted' = inserted \cup {opp.id}
  /\ cycles' = [cycles EXCEPT ![c].pc = "exec", ![c].nInserted = @ + 1]
  /\ UNCHANGED <<cvars, evars, isScanning, scanInterval, timers, botConfig, now, starts,
                 inflight, nextId, stopped>>

IsSimulationOfStrict(cfg) == cfg # NoConfig /\ cfg.useSimulation = "true"

\* isSimulation = botConfig?.useSimulation !== false
IsSimulationOf(cfg) == cfg = NoConfig \/ cfg.useSimulation # "false"

\* Loop body, second half: the mode is read from the stored configuration and
\* executeArbitrageTrade is called without being awaited.
ScanDispatch(c) ==
  /\ cycles[c].pc = "exec"
  /\ LET opp == cycles[c].opps[cycles[c].idx]
     IN inflight' = inflight \cup
          {[id |-> opp.id, isSimulation |-> IsSimulationOf(botConfig),
            by |-> "scan"]}
  /\ cycles' = [cycles EXCEPT ![c].pc = "dispatch", ![c].idx = @ + 1,
                              ![c].nDispatched = @ + 1]
  /\ UNCHANGED <<cvars, evars, isScanning, scanInterval, opportunities, timers, botConfig, now,
                 starts, nextId, inserted, stopped>>

\* The same dispatch, for the attempt that is followed stage by stage:
\* executeArbitrageTrade(userId, opp, isSimulation) starts with the
\* opportunity object of the loop as its snapshot.
ScanDispatchFollowed(c) ==
  /\ epc = "idle"
  /\ cycles[c].pc = "exec"
  /\ LET opp == cycles[c].opps[cycles[c].idx]
     IN /\ inflight' = inflight \cup
             {[id |-> opp.id, isSimulation |-> IsSimulationOf(botConfig),
               by |-> "scan"]}
        /\ eopp' = opp
  /\ isSimulation' = IsSimulationOf(botConfig)
  /\ epc' = "start"
  /\ cycles' = [cycles EXCEPT ![c].pc = "dispatch", ![c].idx = @ + 1,
                              ![c].nDispatched = @ + 1]
  /\ UNCHANGED <<cvars, isScanning, scanInterval, opportunities, timers, botConfig, now,
                 starts, nextId, inserted, stopped, ecfg, eenv, privateKey, swaps,
                 contractCode, calls, wire, logs, records, result>>

StaleTwice(opp, t) == t - opp.timestamp > 2 * StaleMs

\* if (now - opp.timestamp > 60000)
Stale(opp, t) == t - opp.timestamp > StaleMs

ScanEvictAwaits(c) ==
  /\ inflight = {}
  /\ cycles[c].pc = "dispatch"
  /\ cycles[c].idx > Len(cycles[c].opps)
  /\ opportunities' =
       [i \in {j \in DOMAIN opportunities : ~Stale(opportunities[j], now)} |->
          opportunities[i]]
  /\ cycles' = [cycles EXCEPT ![c] = Returned(@, "completed")]
  /\ UNCHANGED <<cvars, evars, isScanning, scanInterval, timers, botConfig, now, starts,
                 inflight, nextId, inserted, stopped>>

\* After the loop: stale entries are deleted, then the status write; the
\* cycle returns.
ScanEvict(c) ==
  /\ cycles[c].pc = "dispatch"
  /\ cycles[c].idx > Len(cycles[c].opps)
  /\ opportunities' =
       [i \in {j \in DOMAIN opportunities : ~Stale(opportunities[j], now)} |->
          opportunities[i]]
  /\ cycles' = [cycles EXCEPT ![c] = Returned(@, "completed")]
  /\ UNCHANGED <<cvars, evars, isScanning, scanInterval, timers, botConfig, now, starts,
                 inflight, nextId, inserted, stopped>>

\* A dispatched executeArbitrageTrade promise settles (its .then / .catch run).
ExecutionSettles(e) ==
  /\ e \in inflight
  /\ inflight' = inflight \ {e}
  /\ UNCHANGED <<cvars, evars, isScanning, scanInterval, opportunities, timers, botConfig, now,
                 starts, cycles, nextId, inserted, stopped>>

\* POST /api/arbitrage/execute: the opportunity is looked up by id in
\* getOpportunities() (404 when absent), the mode is read from the stored
\* configuration and executeArbitrageTrade is called.
ManualExecute(id) ==
  /\ id \in DOMAIN opportunities
  /\ inflight' = inflight \cup
       {[id |-> id, isSimulation |-> IsSimulationOf(botConfig), by |-> "manual"]}
  /\ UNCHANGED <<cvars, evars, isScanning, scanInterval, opportunities, timers, botConfig, now,
                 starts, cycles, nextId, inserted, stopped>>

\* --------------------------------------------------------------- environment
\* Time passes between any two steps.
Tick ==
  /\ now < MaxTicks * TimeStep
  /\ now' = now + TimeStep
  /\ UNCHANGED <<cvars, evars, isScanning, scanInterval, opportunities, timers, botConfig,
                 starts, cycles, inflight, nextId, inserted, stopped>>

\* POST /api/bot/config: the stored configuration is replaced.
ConfigSaved(cfg) ==
  /\ cfg # botConfig
  /\ cfg # NoConfig
  /\ botConfig' = cfg
  /\ UNCHANGED <<cvars, evars, isScanning, scanInterval, opportunities, timers, now, starts,
                 cycles, inflight, nextId, inserted, stopped>>

\* ------------------------------------------------------------ trade executor
KeyLength == 66                      \* privateKey.length !== 66
DefaultExecMaxGasGwei == 60          \* config.maxGasPriceGwei || 60
DefaultTelegramThresholdUsd == 1000  \* || '10'  (cents)

\* Stored and environment credentials: none; 64 hex digits; 66 characters
\* with the prefix; 'abc'; 66 characters with the prefix that are not hex.
ConfigKeys ==
  { NoKey, Key(64, FALSE, TRUE), Key(66, TRUE, TRUE), Key(3, FALSE, TRUE),
    Key(66, TRUE, FALSE) }
EnvKeys == { NoKey, Key(64, FALSE, TRUE) }

\* Stored configurations an attempt runs against.
ExecConfigs ==
  { NoConfig }
  \cup { [BaseConfig EXCEPT !.privateKey = k, !.enableRealTrading = e,
                            !.oneinchApiKey = a, !.flashLoanContract = c] :
           k \in ConfigKeys, e \in BOOLEAN, a \in BOOLEAN, c \in BOOLEAN }
  \cup { [BaseConfig EXCEPT !.maxGasPriceGwei = 100,
                            !.telegramProfitThresholdUsd = 2500],
         [BaseConfig EXCEPT !.maxGasPriceGwei = 30,
                            !.telegramProfitThresholdUsd = 0] }

\* Opportunity snapshots handed to an attempt: 5 USD (0.05 % of the loan) and
\* 20 USD (0.2 %) of estimated profit (E5, 1/100 %), found 10 s or 45 s
\* before the attempt starts (ageMs = Date.now() - opportunity.timestamp).
ExecOpportunities ==
  { [estimatedProfitUsd |-> 5 * E5, netProfitPercent |-> 5, ageMs |-> 10000,
     buyDex |-> "1inch", sellDex |-> "Uniswap V3"],
    [estimatedProfitUsd |-> 20 * E5, netProfitPercent |-> 20, ageMs |-> 10000,
     buyDex |-> "1inch", sellDex |-> "Uniswap V3"],
    [estimatedProfitUsd |-> 20 * E5, netProfitPercent |-> 20, ageMs |-> 45000,
     buyDex |-> "1inch", sellDex |-> "Uniswap V3"] }

\* buildSwapTransaction results: tx.to (an address, absent, or not an
\* address) and whether tx.data is present.
SwapResults ==
  { [to |-> "address", data |-> TRUE], [to |-> "none", data |-> TRUE],
    [to |-> "garbage", data |-> TRUE], [to |-> "address", data |-> FALSE] }

\* provider.getCode results.
ContractCodes == {"0x", "0x0", "0x6080"}

\* DEX_ROUTERS
DEX_ROUTERS == {"1inch", "QuickSwap", "Uniswap V3", "SushiSwap", "Curve", "Balancer"}

\* let privateKey = config.privateKey?.trim() || process.env.PRIVATE_KEY;
\* if (privateKey && !privateKey.startsWith('0x')) privateKey = '0x' + privateKey
NormalisedKey(cfg, env) ==
  LET k == IF cfg.privateKey.len > 0 THEN cfg.privateKey ELSE env.PRIVATE_KEY
  IN IF k.len > 0 /\ ~k.has0x
     THEN [k EXCEPT !.len = @ + 2, !.has0x = TRUE]
     ELSE k

\* Error messages, as the sequence of their words (punctuation apart).
MsgNoConfig == <<"Bot", "configuration", "not", "found">>
MsgRealDisabled == <<"Real", "trading", "is", "disabled", "in", "configuration">>
MsgBadKey == <<"Invalid", "private", "key", "format", ".", "Must", "be", "64",
               "hex", "characters">>
MsgNoKey == <<"Private", "key", "not", "configured", "for", "real", "trading", ".">>
MsgGasUnavailable == <<"Gas", "price", "not", "available">>
MsgGasHigh == <<"Gas", "price", "too", "high", ":">>
MsgNoApiKey == <<"1inch", "API", "key", "not", "configured", "for", "real",
                 "trading", ".">>
MsgWallet == <<"invalid", "private", "key">>
MsgRoute == <<"Request", "failed", "with", "status", "code", "500">>
MsgBuyFailed == <<"Failed", "to", "build", "buy", "swap", "transaction", ":">> \o MsgRoute
MsgSellFailed == <<"Failed", "to", "build", "sell", "swap", "transaction", ":">> \o MsgRoute
MsgNoContract == <<"Arbitrage", "contract", "not", "deployed", ".", "Please",
                   "deploy", "the", "ArbitrageExecutor", "contract", "first", ".">>
MsgBadRouter == <<"Invalid", "router", "address">>
MsgNoData == <<"swap", "transaction", "data", "is", "missing">>
MsgRpc == <<"could", "not", "detect", "network">>
MsgCodeEmpty == <<"ArbitrageExecutor", "contract", "not", "deployed", "at">>
MsgRevert == <<"missing", "revert", "data">>
MsgFlashFailed == <<"Flash", "loan", "execution", "failed">>
MsgNotify == <<"Telegram", "request", "failed">>

\* An Error: message and code.
Err(msg) == [message |-> msg, code |-> "none"]

\* String.prototype.includes, on words: needle occurs in msg, same case.
Includes(msg, needle) ==
  \E i \in 0..(Len(msg) - Len(needle)) :
    \A j \in 1..Len(needle) : msg[i + j] = needle[j]

\* catch: "Determine recommended action based on error".
ErrorType(error) ==
  IF Includes(error.message, <<"1inch", "API", "key">>) THEN "missing_api_key"
  ELSE IF Includes(error.message, <<"Private", "key">>)
       THEN "missing_private_key"
  ELSE IF Includes(error.message, <<"Gas", "price", "too", "high">>)
       THEN "gas_price_high"
  ELSE IF Includes(error.message, <<"Insufficient", "MATIC">>)
       THEN "insufficient_balance"
  ELSE IF Includes(error.message, <<"missing", "revert", "data">>)
          \/ error.code = "CALL_EXCEPTION"
       THEN "contract_revert"
  ELSE IF Includes(error.message, <<"not", "deployed">>)
       THEN "contract_not_deployed"
  ELSE "unknown"

\* A createActivityLog entry: level, metadata.step, metadata.error,
\* metadata.errorType.
Log(level, step) == [level |-> level, step |-> step, error |-> "", errorType |-> ""]
ErrLog(step, error) == [level |-> "error", step |-> step, error |-> error, errorType |-> ""]
CatchLog(error) ==
  [level |-> "error", step |-> "catch", error |-> "", errorType |-> ErrorType(error)]

\* A createArbitrageTransaction record.
Record(status, txHash) == [status |-> status, txHash |-> txHash]

\* The TradeExecutionResult returned.
Success(txHash) == [success |-> TRUE, txHash |-> txHash, error |-> <<>>]
Failure(error) == [success |-> FALSE, txHash |-> "none", error |-> error.message]

\* catch (error): the error log with its classification, the 'failed' record,
\* the failed result.  lg is the log as the failing stage left it.
Fail(error, lg) ==
  /\ logs' = Append(lg, CatchLog(error))
  /\ records' = Append(records, Record("failed", "0x0"))
  /\ result' = Failure(error)
  /\ epc' = "done"

RevalidateMs == 30000          \* ageMs > 30000
DefaultValidateNetPct == 15    \* || '0.15'  (1/100 %)

\* validateOpportunity: the candidate is at most 30 s old and its net profit
\* percent reaches the stored minimum.  executeArbitrageTrade does not call
\* it: its step 1 writes the "validation" log and goes on.
ValidateOpportunity(cfg, opp) ==
  /\ ~(opp.ageMs > RevalidateMs)
  /\ ~(opp.netProfitPercent
         < ParseOr(Field(cfg, "minNetProfitPercent"), DefaultValidateNetPct))

ExecLoadConfigTrusting ==
  /\ epc = "start"
  /\ ecfg' = botConfig
  /\ LET l1 == Append(logs, Log("info", "1_validation"))
     IN IF botConfig = NoConfig
        THEN Fail(Err(MsgNoConfig), l1) /\ privateKey' = privateKey
        ELSE LET key == NormalisedKey(botConfig, eenv)
             IN /\ privateKey' = key
                /\ IF key.len > 0 /\ key.len # KeyLength
                   THEN Fail(Err(MsgBadKey),
                             Append(l1, ErrLog("2_validation_failed",
                                               "invalid_private_key_format")))
                   ELSE /\ logs' = Append(l1, Log("info", "2_key_validation"))
                        /\ epc' = IF ~isSimulation /\ key.len > 0
                                  THEN "balance" ELSE "gas"
                        /\ UNCHANGED <<records, result>>
  /\ UNCHANGED <<cvars, svars, wire, contractCode, eenv, eopp, isSimulation, swaps, calls>>

\* Steps 1-5: the step-1 log, the configuration read, the mode check, the
\* credential normalisation and its checks, the step-2 log.
ExecLoadConfig ==
  /\ epc = "start"
  /\ ecfg' = botConfig
  /\ LET l1 == Append(logs, Log("info", "1_validation"))
     IN IF botConfig = NoConfig
        THEN Fail(Err(MsgNoConfig), l1) /\ privateKey' = privateKey
        ELSE IF ~isSimulation /\ ~botConfig.enableRealTrading
        THEN Fail(Err(MsgRealDisabled), l1) /\ privateKey' = privateKey
        ELSE LET key == NormalisedKey(botConfig, eenv)
             IN /\ privateKey' = key
                /\ IF key.len > 0 /\ key.len # KeyLength
                   THEN Fail(Err(MsgBadKey),
                             Append(l1, ErrLog("2_validation_failed",
                                               "invalid_private_key_format")))
                   ELSE IF ~isSimulation /\ key.len = 0
                   THEN Fail(Err(MsgNoKey),
                             Append(l1, ErrLog("2_validation_failed",
                                               "private_key_not_configured")))
                   ELSE /\ logs' = Append(l1, Log("info", "2_key_validation"))
                        /\ epc' = IF ~isSimulation /\ key.len > 0
                                  THEN "balance" ELSE "gas"
                        /\ UNCHANGED <<records, result>>
  /\ UNCHANGED <<cvars, svars, wire, contractCode, eenv, eopp, isSimulation, swaps, calls>>

\* Step 5 (real mode, credential set): the MATIC balance check.  Its own
\* try/catch turns every failure inside it - the Wallet constructor, the
\* balance read, the 'Insufficient MATIC balance' throw - into a warning log.
ExecBalance ==
  /\ epc = "balance"
  /\ IF ~privateKey.hex
     THEN /\ calls' = calls
          /\ logs' = Append(logs, Log("warning", "3_balance_check_failed"))
     ELSE /\ calls' = Append(calls, "getNativeBalance")
          /\ \E outcome \in {"rejected", "low", "sufficient"} :
               logs' = CASE outcome = "rejected" ->
                              Append(logs, Log("warning", "3_balance_check_failed"))
                         [] outcome = "low" ->
                              logs \o <<Log("info", "3_balance_check"),
                                        Log("warning", "3_balance_check_failed")>>
                         [] outcome = "sufficient" ->
                              Append(logs, Log("info", "3_balance_check"))
  /\ epc' = "gas"
  /\ UNCHANGED <<cvars, svars, wire, contractCode, ecfg, eenv, eopp, isSimulation, privateKey, swaps,
                 records, result>>

BranchAlwaysReal(simulation) == "prepare"

\* if (isSimulation) { ... return } else the real branch
Branch(simulation) == IF simulation THEN "simulate" ELSE "prepare"

ExecGasWritesBack ==
  /\ epc = "gas"
  /\ calls' = Append(calls, "getGasPrice")
  /\ \/ Fail(Err(MsgGasUnavailable), logs)
     \/ \E g \in GasReadings :
          LET l4 == Append(logs, Log("info", "4_gas_check"))
          IN IF g > OrDefault(ecfg.maxGasPriceGwei, DefaultExecMaxGasGwei)
             THEN Fail(Err(MsgGasHigh), Append(l4, ErrLog("4_gas_too_high", "")))
             ELSE /\ logs' = l4
                  /\ epc' = Branch(isSimulation)
                  /\ UNCHANGED <<records, result>>
  /\ opportunities' = [i \in DOMAIN opportunities \ {eopp.id} |-> opportunities[i]]
  /\ UNCHANGED <<cvars, isScanning, scanInterval, timers, botConfig, now, starts, cycles,
                 inflight, nextId, inserted, stopped, wire, contractCode, ecfg, eenv,
                 eopp, isSimulation, privateKey, swaps>>

\* Step 6: the gas price read and the ceiling check, in both modes.
ExecGas ==
  /\ epc = "gas"
  /\ calls' = Append(calls, "getGasPrice")
  /\ \/ Fail(Err(MsgGasUnavailable), logs)
     \/ \E g \in GasReadings :
          LET l4 == Append(logs, Log("info", "4_gas_check"))
          IN IF g > OrDefault(ecfg.maxGasPriceGwei, DefaultExecMaxGasGwei)
             THEN Fail(Err(MsgGasHigh), Append(l4, ErrLog("4_gas_too_high", "")))
             ELSE /\ logs' = l4
                  /\ epc' = Branch(isSimulation)
                  /\ UNCHANGED <<records, result>>
  /\ UNCHANGED <<cvars, svars, wire, contractCode, ecfg, eenv, eopp, isSimulation, privateKey, swaps>>

\* parseFloat(config.telegramProfitThresholdUsd?.toString() || '10')  (cents)
TelegramThreshold(cfg) ==
  ParseOr(cfg.telegramProfitThresholdUsd, DefaultTelegramThresholdUsd)

\* The simulation branch up to the notification: two logs and the 'success'
\* record with a mock hash.
ExecSimulate ==
  /\ epc = "simulate"
  /\ logs' = logs \o <<Log("info", "5_mock_transaction"), Log("success", "7_completed")>>
  /\ records' = Append(records, Record("success", "mock"))
  /\ IF ProfitUsdGE(eopp.estimatedProfitUsd, TelegramThreshold(ecfg))
     THEN epc' = "simnotify" /\ result' = result
     ELSE epc' = "done" /\ result' = Success("mock")
  /\ UNCHANGED <<cvars, svars, wire, contractCode, ecfg, eenv, eopp, isSimulation, privateKey, swaps, calls>>

\* Real mode: the 1inch API key check, the step-5 log, the Wallet built from
\* the credential, the two preparation logs.
ExecPrepare ==
  /\ epc = "prepare"
  /\ IF ~ecfg.oneinchApiKey
     THEN Fail(Err(MsgNoApiKey),
               Append(logs, ErrLog("5_api_key_missing", "1inch_api_key_not_configured")))
     ELSE IF ~privateKey.hex
     THEN Fail(Err(MsgWallet), Append(logs, Log("warning", "5_real_execution")))
     ELSE /\ logs' = logs \o <<Log("warning", "5_real_execution"),
                               Log("info", "5.1_dex_init"),
                               Log("info", "6_flash_loan_mode")>>
          /\ epc' = "buy"
          /\ UNCHANGED <<records, result>>
  /\ UNCHANGED <<cvars, svars, wire, contractCode, ecfg, eenv, eopp, isSimulation, privateKey, swaps, calls>>

\* new ethers.Wallet(privateKey).address: the public address the key digits
\* derive, whatever form the credential was stored in.
WalletAddress(key) == IF key.hex THEN "0xWallet" ELSE "none"

SwapRequestWithKey(leg, key) ==
  [ src |-> IF leg = "buy" THEN "tokenIn" ELSE "tokenOut",
    dst |-> IF leg = "buy" THEN "tokenOut" ELSE "tokenIn",
    amount |-> IF leg = "buy" THEN "loanAmount" ELSE "buySwap.toAmount",
    from |-> WalletAddress(key), credential |-> key, slippage |-> 1 ]

\* The argument of a buildSwapTransaction call.
SwapRequest(leg, key) ==
  [ src |-> IF leg = "buy" THEN "tokenIn" ELSE "tokenOut",
    dst |-> IF leg = "buy" THEN "tokenOut" ELSE "tokenIn",
    amount |-> IF leg = "buy" THEN "loanAmount" ELSE "buySwap.toAmount",
    from |-> WalletAddress(key), slippage |-> 1 ]

ExecBuildBuySwallows ==
  /\ epc = "buy"
  /\ calls' = Append(calls, "buildSwapTransaction")
  /\ wire' = Append(wire, SwapRequest("buy", privateKey))
  /\ LET l == Append(logs, Log("info", "5.2_build_buy_swap"))
     IN \/ /\ logs' = Append(l, ErrLog("5.3_buy_swap_failed", ""))
           /\ swaps' = swaps
        \/ \E sw \in SwapResults :
             /\ swaps' = [swaps EXCEPT !.buy = sw]
             /\ logs' = Append(l, Log("success", "5.3_buy_swap_ready"))
  /\ epc' = "sell"
  /\ UNCHANGED <<cvars, svars, contractCode, ecfg, eenv, eopp, isSimulation, privateKey,
                 records, result>>

\* The buy leg: buildSwapTransaction, its failure logged and rethrown.
ExecBuildBuy ==
  /\ epc = "buy"
  /\ calls' = Append(calls, "buildSwapTransaction")
  /\ wire' = Append(wire, SwapRequest("buy", privateKey))
  /\ LET l == Append(logs, Log("info", "5.2_build_buy_swap"))
     IN \/ /\ Fail(Err(MsgBuyFailed), Append(l, ErrLog("5.3_buy_swap_failed", "")))
           /\ swaps' = swaps
        \/ \E sw \in SwapResults :
             /\ swaps' = [swaps EXCEPT !.buy = sw]
             /\ logs' = Append(l, Log("success", "5.3_buy_swap_ready"))
             /\ epc' = "sell"
             /\ UNCHANGED <<records, result>>
  /\ UNCHANGED <<cvars, svars, contractCode, ecfg, eenv, eopp, isSimulation, privateKey>>

\* The sell leg.
ExecBuildSell ==
  /\ epc = "sell"
  /\ calls' = Append(calls, "buildSwapTransaction")
  /\ wire' = Append(wire, SwapRequest("sell", privateKey))
  /\ LET l == Append(logs, Log("info", "5.4_build_sell_swap"))
     IN \/ /\ Fail(Err(MsgSellFailed), Append(l, ErrLog("5.5_sell_swap_failed", "")))
           /\ swaps' = swaps
        \/ \E sw \in SwapResults :
             /\ swaps' = [swaps EXCEPT !.sell = sw]
             /\ logs' = Append(l, Log("success", "5.5_sell_swap_ready"))
             /\ epc' = "contract"
             /\ UNCHANGED <<records, result>>
  /\ UNCHANGED <<cvars, svars, contractCode, ecfg, eenv, eopp, isSimulation, privateKey>>

\* config.flashLoanContract || process.env.ARBITRAGE_CONTRACT
ContractAddress(cfg, env) ==
  IF cfg.flashLoanContract \/ env.ARBITRAGE_CONTRACT THEN "address" ELSE "none"

\* swap.tx?.to || DEX_ROUTERS[dex] || arbitrageContractAddress
RouterAddress(swap, dex, contract) ==
  IF swap.to # "none" THEN swap.to
  ELSE IF dex \in DEX_ROUTERS THEN "address"
  ELSE contract

\* The execution contract address, the router addresses and the call data
\* of both legs.
ExecResolveContract ==
  /\ epc = "contract"
  /\ LET l6 == Append(logs, Log("info", "6_swap_preparation"))
         contract == ContractAddress(ecfg, eenv)
         buyRouter == RouterAddress(swaps.buy, eopp.buyDex, contract)
         sellRouter == RouterAddress(swaps.sell, eopp.sellDex, contract)
         l61 == Append(l6, Log("info", "6.1_contract_address"))
     IN IF contract = "none" THEN Fail(Err(MsgNoContract), l6)
        ELSE IF buyRouter # "address" \/ sellRouter # "address"
        THEN Fail(Err(MsgBadRouter), l61)
        ELSE IF ~swaps.buy.data \/ ~swaps.sell.data
        THEN Fail(Err(MsgNoData), l61)
        ELSE /\ logs' = Append(l61, Log("info", "6.2_router_addresses"))
             /\ epc' = "code"
             /\ UNCHANGED <<records, result>>
  /\ UNCHANGED <<cvars, svars, wire, contractCode, ecfg, eenv, eopp, isSimulation, privateKey, swaps, calls>>

CodeIsEmptyNever(code) == FALSE

\* contractCode === '0x' || contractCode === '0x0'
CodeIsEmpty(code) == code = "0x" \/ code = "0x0"

\* provider.getCode at the execution contract address.
ExecGetCode ==
  /\ epc = "code"
  /\ calls' = Append(calls, "getCode")
  /\ \/ Fail(Err(MsgRpc), logs) /\ contractCode' = contractCode
     \/ \E code \in ContractCodes :
          /\ contractCode' = code
          /\ IF CodeIsEmpty(code)
             THEN Fail(Err(MsgCodeEmpty), logs)
             ELSE /\ logs' = logs \o <<Log("info", "6.3_contract_validated"),
                                       Log("info", "6.4_arbitrage_params"),
                                       Log("info", "7_execute_flashloan")>>
                  /\ epc' = "flash"
                  /\ UNCHANGED <<records, result>>
  /\ UNCHANGED <<cvars, svars, wire, ecfg, eenv, eopp, isSimulation, privateKey, swaps>>

ExecFlashLoanUnanswered ==
  /\ epc = "flash"
  /\ UNCHANGED vars

\* Transaction hashes executeFlashLoan returns.
TxHashes == {"0xa1", "0xb2"}

\* An executeFlashLoan call: the credential it is given (privateKey!), and
\* what it reported.
FlashLoanCall(key, success, txHash) ==
  [credential |-> key, success |-> success, txHash |-> txHash]

PendingRecordFixed(txHash) == Record("pending", "0xa1")

\* createArbitrageTransaction({ txHash: realTxHash, ..., status: 'pending' })
PendingRecord(txHash) == Record("pending", txHash)

\* aaveFlashLoanV3.executeFlashLoan: it rejects, or returns success = false,
\* or returns success = true (the 'pending' record and the step-8 log).
ExecFlashLoan ==
  /\ epc = "flash"
  /\ calls' = Append(calls, "executeFlashLoan")
  /\ \/ /\ Fail([message |-> MsgRevert, code |-> "CALL_EXCEPTION"], logs)
        /\ wire' = Append(wire, FlashLoanCall(privateKey, FALSE, "none"))
     \/ /\ Fail(Err(MsgFlashFailed), logs)
        /\ wire' = Append(wire, FlashLoanCall(privateKey, FALSE, "none"))
     \/ \E txHash \in TxHashes :
          /\ wire' = Append(wire, FlashLoanCall(privateKey, TRUE, txHash))
          /\ records' = Append(records, PendingRecord(txHash))
          /\ logs' = Append(logs, Log("success", "8_transaction_sent"))
          /\ epc' = "notify"
          /\ result' = result
  /\ UNCHANGED <<cvars, svars, contractCode, ecfg, eenv, eopp, isSimulation, privateKey, swaps>>

\* How a sendTelegramMessage call ends: delivery can fail.
NotifyOutcomes == {"sent", "rejected"}

\* await sendTelegramMessage(...), inside the try: it resolves and the
\* attempt returns its success result, or it rejects and the catch runs.
ExecNotify ==
  /\ epc \in {"simnotify", "notify"}
  /\ calls' = Append(calls, "sendTelegramMessage")
  /\ \E outcome \in NotifyOutcomes :
       IF outcome = "sent"
       THEN /\ result' = Success(IF epc = "simnotify" THEN "mock"
                                  ELSE wire[Len(wire)].txHash)
            /\ epc' = "done"
            /\ UNCHANGED <<logs, records>>
       ELSE Fail(Err(MsgNotify), logs)
  /\ UNCHANGED <<cvars, svars, wire, contractCode, ecfg, eenv, eopp, isSimulation, privateKey, swaps>>

\* ----------------------------------------------------------- specifications
NoResult == [none |-> TRUE]

\* ------------------------------------------------------- ArbitrageExecutor
\* The account that deployed the contract.
Deployer == "deployer"
\* Externally owned accounts that send transactions.
Accounts == {Deployer, "alice", "bob"}
\* address(POOL) and address(this).
Pool == "pool"
This == "contract"

\* Loan amounts, premiums and minimum profits of a call, and the asset
\* balance the two swaps leave: nothing, the largest loan, or one more.
Amounts == {0, MaxUint - 1}
Premiums == {0, 2}
MinProfits == {0, 1}
Afters == {0, MaxUint - 1, MaxUint}
\* (buyOk, sellOk): whether each router call succeeds.
SwapOutcomes == {<<TRUE, TRUE>>, <<FALSE, TRUE>>, <<TRUE, FALSE>>}

\* A transaction: the function called, msg.sender, whether it succeeded
\* (did not revert) and whether it reached POOL.flashLoanSimple.
Tx(fn, sender, ok, loan) == [fn |-> fn, sender |-> sender, ok |-> ok, loan |-> loan]
NoTx == Tx("none", "none", FALSE, FALSE)

\* An executeOperation call: msg.sender, its arguments, the asset balance
\* after the swaps, and whether it returned true.
Op(sender, initiator, amount, premium, after, minProfit, returned) ==
  [sender |-> sender, initiator |-> initiator, amount |-> amount,
   premium |-> premium, after |-> after, minProfit |-> minProfit,
   returned |-> returned]
NoOp == Op("none", "none", 0, 0, 0, 0, FALSE)

\* An authorizeExecutor(executorAddress) call: where it is, its argument, the
\* account its signer is, what it has read so far, the addExecutor
\* transactions it has sent, and the value it returned.
AuthCall(pc, executor, signer) ==
  [ pc |-> pc, executor |-> executor, signer |-> signer, config |-> NoConfig,
    balance |-> "unread", contractOwner |-> "unread", isApproved |-> "unread",
    sent |-> 0, result |-> [none |-> TRUE] ]
AuthIdle == AuthCall("idle", "none", "none")

\* constructor: Ownable(msg.sender), nobody approved, no profit, nothing held;
\* no authorizeExecutor call has been made.
ContractConstructed ==
  /\ owner = Deployer
  /\ approvedExecutors = [a \in Accounts |-> FALSE]
  /\ totalProfits = 0
  /\ balances = [native |-> 0, asset |-> 0]
  /\ tx = NoTx
  /\ op = NoOp
  /\ auth = AuthIdle

AuthorizedAnyone(sender, approved) == TRUE

\* require(approvedExecutors[msg.sender] || msg.sender == owner(), "Not authorized")
Authorized(sender, approved) == approved[sender] \/ sender = owner

\* modifier onlyOwner
OnlyOwner(sender) == sender = owner

\* A reverted call.
Reverted == [returned |-> FALSE, profit |-> 0]

ExecuteOperationNoThreshold(sender, initiator, amount, premium, buyOk, sellOk, after, minProfit, profits) ==
  IF sender # Pool THEN Reverted
  ELSE IF initiator # This THEN Reverted
  ELSE IF ~(amount > 0) THEN Reverted
  ELSE IF ~buyOk \/ ~sellOk THEN Reverted
  ELSE IF amount + premium > MaxUint THEN Reverted
  ELSE IF ~(after >= amount + premium) THEN Reverted
  ELSE IF profits + (after - (amount + premium)) > MaxUint THEN Reverted
  ELSE [returned |-> TRUE, profit |-> after - (amount + premium)]

\* executeOperation, called by sender with the given arguments while the
\* swaps succeed or fail and leave the balance `after`; profits is
\* totalProfits.  Arithmetic is checked: an overflow reverts.
ExecuteOperation(sender, initiator, amount, premium, buyOk, sellOk, after, minProfit, profits) ==
  IF sender # Pool THEN Reverted
  ELSE IF initiator # This THEN Reverted
  ELSE IF ~(amount > 0) THEN Reverted
  ELSE IF ~buyOk \/ ~sellOk THEN Reverted
  ELSE IF amount + premium > MaxUint THEN Reverted
  ELSE IF ~(after >= amount + premium) THEN Reverted
  ELSE IF ~(after - (amount + premium) >= minProfit) THEN Reverted
  ELSE IF profits + (after - (amount + premium)) > MaxUint THEN Reverted
  ELSE [returned |-> TRUE, profit |-> after - (amount + premium)]

\* executeArbitrage sent by sender: the authorization check, then
\* POOL.flashLoanSimple, which lends the amount, calls executeOperation with
\* this contract as initiator and, when that returned true, pulls the amount
\* and the premium; anything else reverts the transaction.
ExecuteArbitrage(sender, amount, premium, buyOk, sellOk, after, minProfit) ==
  /\ IF ~Authorized(sender, approvedExecutors)
     THEN /\ tx' = Tx("executeArbitrage", sender, FALSE, FALSE)
          /\ op' = NoOp
          /\ UNCHANGED <<totalProfits, balances>>
     ELSE LET out == ExecuteOperation(Pool, This, amount, premium, buyOk, sellOk,
                                      after, minProfit, totalProfits)
          IN /\ tx' = Tx("executeArbitrage", sender, out.returned, TRUE)
             /\ op' = Op(Pool, This, amount, premium, after, minProfit, out.returned)
             /\ totalProfits' = totalProfits + out.profit
             /\ balances' = IF out.returned
                            THEN [balances EXCEPT !.asset = after - (amount + premium)]
                            ELSE balances
  /\ UNCHANGED <<svars, evars, auth, owner, approvedExecutors>>

\* executeOperation called from outside executeArbitrage: by an account, or
\* by the Pool for a flash loan that another initiator asked it to send here.
CallExecuteOperation(sender, initiator, amount, premium, buyOk, sellOk, after, minProfit) ==
  /\ ~(sender = Pool /\ initiator = This)
  /\ LET out == ExecuteOperation(sender, initiator, amount, premium, buyOk, sellOk,
                                 after, minProfit, totalProfits)
     IN /\ tx' = Tx("executeOperation", sender, out.returned, FALSE)
        /\ op' = Op(sender, initiator, amount, premium, after, minProfit, out.returned)
        /\ totalProfits' = totalProfits + out.profit
        /\ balances' = IF out.returned
                       THEN [balances EXCEPT !.asset = after - (amount + premium)]
                       ELSE balances
  /\ UNCHANGED <<svars, evars, auth, owner, approvedExecutors>>

\* addExecutor(executor) external onlyOwner
AddExecutor(sender, executor) ==
  /\ tx' = Tx("addExecutor", sender, OnlyOwner(sender), FALSE)
  /\ approvedExecutors' = IF OnlyOwner(sender)
                          THEN [approvedExecutors EXCEPT ![executor] = TRUE]
                          ELSE approvedExecutors
  /\ op' = NoOp
  /\ UNCHANGED <<svars, evars, auth, owner, totalProfits, balances>>

\* removeExecutor(executor) external onlyOwner
RemoveExecutor(sender, executor) ==
  /\ tx' = Tx("removeExecutor", sender, OnlyOwner(sender), FALSE)
  /\ approvedExecutors' = IF OnlyOwner(sender)
                          THEN [approvedExecutors EXCEPT ![executor] = FALSE]
                          ELSE approvedExecutors
  /\ op' = NoOp
  /\ UNCHANGED <<svars, evars, auth, owner, totalProfits, balances>>

\* Ownable.transferOwnership(newOwner), inherited: onlyOwner.
TransferOwnership(sender, newOwner) ==
  /\ tx' = Tx("transferOwnership", sender, OnlyOwner(sender), FALSE)
  /\ owner' = IF OnlyOwner(sender) THEN newOwner ELSE owner
  /\ op' = NoOp
  /\ UNCHANGED <<svars, evars, auth, approvedExecutors, totalProfits, balances>>

\* emergencyWithdraw(token, amount) external onlyOwner: the native or the
\* token transfer to the owner reverts when the balance does not cover it.
EmergencyWithdraw(sender, token, amount) ==
  /\ LET ok == OnlyOwner(sender) /\ amount <= balances[token]
     IN /\ tx' = Tx("emergencyWithdraw", sender, ok, FALSE)
        /\ balances' = IF ok THEN [balances EXCEPT ![token] = @ - amount]
                       ELSE balances
  /\ op' = NoOp
  /\ UNCHANGED <<svars, evars, auth, owner, approvedExecutors, totalProfits>>

\* withdrawProfits(token) external onlyOwner: the whole token balance,
\* which must be positive.
WithdrawProfits(sender) ==
  /\ LET ok == OnlyOwner(sender) /\ balances.asset > 0
     IN /\ tx' = Tx("withdrawProfits", sender, ok, FALSE)
        /\ balances' = IF ok THEN [balances EXCEPT !.asset = 0] ELSE balances
  /\ op' = NoOp
  /\ UNCHANGED <<svars, evars, auth, owner, approvedExecutors, totalProfits>>

\* receive() external payable, until the contract holds one unit.
Receive(sender) ==
  /\ balances.native < 1
  /\ tx' = Tx("receive", sender, TRUE, FALSE)
  /\ balances' = [balances EXCEPT !.native = @ + 1]
  /\ op' = NoOp
  /\ UNCHANGED <<svars, evars, auth, owner, approvedExecutors, totalProfits>>

\* ------------------------------------------------------- authorizeExecutor
\* Stored configurations authorizeExecutor runs against: none, or one with
\* no key, a key that is not hexadecimal or a well-formed key, and with or
\* without the contract address and the RPC URL of the network.
AuthConfigs ==
  { NoConfig }
  \cup { [privateKey |-> k, flashLoanContract |-> c, rpcUrl |-> r] :
           k \in {NoKey, Key(66, TRUE, FALSE), Key(66, TRUE, TRUE)},
           c \in BOOLEAN, r \in BOOLEAN }

\* The AuthorizationResult returned.
AuthResult(success, error) == [success |-> success, error |-> error]

\* catch (error): { success: false, message, error: 'UNKNOWN_ERROR' }
Caught(error) == AuthResult(FALSE, "UNKNOWN_ERROR")

\* The call returns r.
AuthReturn(r) == auth' = [auth EXCEPT !.pc = "done", !.result = r]

\* authorizeExecutor(executorAddress) is called (POST /api/contract/authorize)
\* once no earlier call is running; signer is the account of the stored key.
AuthorizeExecutor(executor, signer) ==
  /\ auth.pc \in {"idle", "done"}
  /\ auth' = AuthCall("config", executor, signer)
  /\ UNCHANGED <<svars, evars, owner, approvedExecutors, totalProfits, balances, tx, op>>

\* getBotConfig resolved (or rejected): the key, the contract address and the
\* RPC URL are checked in that order; a missing configuration throws.
AuthConfig ==
  /\ auth.pc = "config"
  /\ \/ AuthReturn(Caught("storage"))
     \/ IF botConfig = NoConfig THEN AuthReturn(Caught("TypeError"))
        ELSE IF botConfig.privateKey.len = 0
        THEN AuthReturn(AuthResult(FALSE, "PRIVATE_KEY_MISSING"))
        ELSE IF ~botConfig.flashLoanContract
        THEN AuthReturn(AuthResult(FALSE, "CONTRACT_ADDRESS_MISSING"))
        ELSE IF ~botConfig.rpcUrl
        THEN AuthReturn(AuthResult(FALSE, "RPC_URL_MISSING"))
        ELSE auth' = [auth EXCEPT !.pc = "balance", !.config = botConfig]
  /\ UNCHANGED <<svars, evars, owner, approvedExecutors, totalProfits, balances, tx, op>>

\* new ethers.Wallet(config.privateKey, provider) throws on a malformed key;
\* provider.getBalance(signer.address) rejects, or reads below or at least 0.01.
AuthBalance ==
  /\ auth.pc = "balance"
  /\ IF ~auth.config.privateKey.hex THEN AuthReturn(Caught("wallet"))
     ELSE \/ AuthReturn(Caught("rpc"))
          \/ auth' = [auth EXCEPT !.pc = "done", !.balance = "low",
                                  !.result = AuthResult(FALSE, "INSUFFICIENT_BALANCE")]
          \/ auth' = [auth EXCEPT !.pc = "owner", !.balance = "enough"]
  /\ UNCHANGED <<svars, evars, owner, approvedExecutors, totalProfits, balances, tx, op>>

AuthOwnerUnchecked ==
  /\ auth.pc = "owner"
  /\ \/ AuthReturn(Caught("rpc"))
     \/ auth' = [auth EXCEPT !.pc = "approved", !.contractOwner = owner]
  /\ UNCHANGED <<svars, evars, owner, approvedExecutors, totalProfits, balances, tx, op>>

\* contract.owner(): it rejects, or the owner read is compared with the signer.
AuthOwner ==
  /\ auth.pc = "owner"
  /\ \/ AuthReturn(Caught("rpc"))
     \/ IF owner # auth.signer
        THEN auth' = [auth EXCEPT !.pc = "done", !.contractOwner = owner,
                                  !.result = AuthResult(FALSE, "NOT_OWNER")]
        ELSE auth' = [auth EXCEPT !.pc = "approved", !.contractOwner = owner]
  /\ UNCHANGED <<svars, evars, owner, approvedExecutors, totalProfits, balances, tx, op>>

\* contract.approvedExecutors(executorAddress): it rejects, or an executor
\* already approved ends the call with success.
AuthApproved ==
  /\ auth.pc = "approved"
  /\ \/ AuthReturn(Caught("rpc"))
     \/ IF approvedExecutors[auth.executor]
        THEN auth' = [auth EXCEPT !.pc = "done", !.isApproved = TRUE,
                                  !.result = AuthResult(TRUE, "")]
        ELSE auth' = [auth EXCEPT !.pc = "send", !.isApproved = FALSE]
  /\ UNCHANGED <<svars, evars, owner, approvedExecutors, totalProfits, balances, tx, op>>

\* contract.addExecutor(executorAddress, { gasLimit }) and tx.wait(): the
\* send rejects, or the transaction is mined: addExecutor runs on the
\* contract with the signer as msg.sender, and a revert makes tx.wait() throw.
AuthSend ==
  /\ auth.pc = "send"
  /\ \/ /\ AuthReturn(Caught("rpc"))
        /\ UNCHANGED <<approvedExecutors, tx, op>>
     \/ /\ tx' = Tx("addExecutor", auth.signer, OnlyOwner(auth.signer), FALSE)
        /\ op' = NoOp
        /\ approvedExecutors' = IF OnlyOwner(auth.signer)
                                THEN [approvedExecutors EXCEPT ![auth.executor] = TRUE]
                                ELSE approvedExecutors
        /\ auth' = IF OnlyOwner(auth.signer)
                   THEN [auth EXCEPT !.pc = "recheck", !.sent = @ + 1]
                   ELSE [auth EXCEPT !.pc = "done", !.sent = @ + 1,
                                     !.result = Caught("CALL_EXCEPTION")]
  /\ UNCHANGED <<svars, evars, owner, totalProfits, balances>>

\* contract.approvedExecutors(executorAddress) after the receipt: it rejects,
\* or the call returns success exactly when the executor is approved now.
AuthRecheck ==
  /\ auth.pc = "recheck"
  /\ \/ AuthReturn(Caught("rpc"))
     \/ AuthReturn(IF approvedExecutors[auth.executor]
                   THEN AuthResult(TRUE, "")
                   ELSE AuthResult(FALSE, "AUTHORIZATION_FAILED"))
  /\ UNCHANGED <<svars, evars, owner, approvedExecutors, totalProfits, balances, tx, op>>

\* No execution attempt is being followed.
ExecIdle ==
  /\ epc = "idle"
  /\ ecfg = NoConfig
  /\ eenv = [PRIVATE_KEY |-> NoKey, ARBITRAGE_CONTRACT |-> FALSE]
  /\ eopp = [estimatedProfitUsd |-> 0]
  /\ isSimulation = TRUE
  /\ privateKey = NoKey
  /\ swaps = [buy |-> NoResult, sell |-> NoResult]
  /\ contractCode = "unread"
  /\ calls = <<>>
  /\ wire = <<>>
  /\ logs = <<>>
  /\ records = <<>>
  /\ result = NoResult

\* The scanner under every interleaving of its calls, timers and cycles.
Init == ScannerInit /\ ExecIdle /\ ContractConstructed

Next ==
  \/ StartScanning
  \/ StopScanning
  \/ Tick
  \/ \E s \in 1..Len(starts) : StartConfigured(s)
  \/ \E s \in 1..Len(starts) : StartStorageFailed(s)
  \/ \E s \in 1..Len(starts) : StartInitialScan(s)
  \/ \E s \in 1..Len(starts) : StartInstallTimer(s)
  \/ \E t \in timers : TimerFires(t)
  \/ \E c \in 1..Len(cycles) : ScanGate(c)
  \/ \E c \in 1..Len(cycles) : ScanFetchFew(c)
  \/ \E c \in 1..Len(cycles) : ScanInsert(c)
  \/ \E c \in 1..Len(cycles) : ScanDispatch(c)
  \/ \E c \in 1..Len(cycles) : ScanEvict(c)
  \/ \E e \in inflight : ExecutionSettles(e)

Spec == Init /\ [][Next]_vars

\* One scanning session: every quote outcome, configuration saves, time.
NextScan ==
  \/ StartSession
  \/ Tick
  \/ \E cfg \in ScanConfigs : ConfigSaved(cfg)
  \/ \E s \in 1..Len(starts) : StartConfigured(s)
  \/ \E s \in 1..Len(starts) : StartInitialScan(s)
  \/ \E s \in 1..Len(starts) : StartInstallTimer(s)
  \/ \E t \in timers : TimerFires(t)
  \/ \E c \in 1..Len(cycles) : ScanGate(c)
  \/ \E c \in 1..Len(cycles) : ScanFetch(c)
  \/ \E c \in 1..Len(cycles) : ScanInsert(c)
  \/ \E c \in 1..Len(cycles) : ScanDispatch(c)
  \/ \E c \in 1..Len(cycles) : ScanEvict(c)

SpecScan == Init /\ [][NextScan]_vars

\* Sessions one after another: a client that sends a start request once the
\* previous one was answered, stops, saves the configuration and starts again.
NextSession ==
  \/ ((\A s \in 1..Len(starts) : starts[s].pc \in {"done", "running"})
        /\ StartScanning)
  \/ (~stopped /\ StopScanning)
  \/ \E cfg \in ScanConfigs : ConfigSaved(cfg)
  \/ \E s \in 1..Len(starts) : StartConfigured(s)
  \/ \E s \in 1..Len(starts) : StartInitialScan(s)
  \/ \E s \in 1..Len(starts) : StartInstallTimer(s)
  \/ \E t \in timers : TimerFires(t)
  \/ \E c \in 1..Len(cycles) : ScanGate(c)
  \/ \E c \in 1..Len(cycles) : ScanFetchFew(c)
  \/ \E c \in 1..Len(cycles) : ScanInsert(c)
  \/ \E c \in 1..Len(cycles) : ScanDispatch(c)
  \/ \E c \in 1..Len(cycles) : ScanEvict(c)

SpecSession == Init /\ [][NextSession]_vars

\* One session with its executions: dispatched and manually requested
\* attempts in flight while the cycles go on and time passes.
NextFlight ==
  \/ StartSession
  \/ Tick
  \/ \E s \in 1..Len(starts) : StartConfigured(s)
  \/ \E s \in 1..Len(starts) : StartInitialScan(s)
  \/ \E s \in 1..Len(starts) : StartInstallTimer(s)
  \/ \E t \in timers : TimerFires(t)
  \/ \E c \in 1..Len(cycles) : ScanGate(c)
  \/ \E c \in 1..Len(cycles) : ScanFetchFew(c)
  \/ \E c \in 1..Len(cycles) : ScanInsert(c)
  \/ \E c \in 1..Len(cycles) : ScanDispatch(c)
  \/ \E c \in 1..Len(cycles) : ScanEvict(c)
  \/ \E e \in inflight : ExecutionSettles(e)
  \/ \E id \in DOMAIN opportunities : ManualExecute(id)

SpecFlight == Init /\ [][NextFlight]_vars

\* One session whose mode is switched: the stored configuration is saved
\* (also with every column left unset) between dispatched and manually
\* requested executions.
NextMode ==
  \/ StartSession
  \/ \E cfg \in ScanConfigs \cup {BaseConfig} : ConfigSaved(cfg)
  \/ \E s \in 1..Len(starts) : StartConfigured(s)
  \/ \E s \in 1..Len(starts) : StartInitialScan(s)
  \/ \E s \in 1..Len(starts) : StartInstallTimer(s)
  \/ \E t \in timers : TimerFires(t)
  \/ \E c \in 1..Len(cycles) : ScanGate(c)
  \/ \E c \in 1..Len(cycles) : ScanFetchFew(c)
  \/ \E c \in 1..Len(cycles) : ScanInsert(c)
  \/ \E c \in 1..Len(cycles) : ScanDispatch(c)
  \/ \E c \in 1..Len(cycles) : ScanEvict(c)
  \/ \E e \in inflight : ExecutionSettles(e)
  \/ \E id \in DOMAIN opportunities : ManualExecute(id)

SpecMode == Init /\ [][NextMode]_vars

\* One session started through POST /api/scanner/start, with or without a
\* tokenPairs list in the request; the scan of a pair can fail as a whole.
NextPairs ==
  \/ \E request \in Requests : StartSessionWith(request)
  \/ \E s \in 1..Len(starts) : StartConfigured(s)
  \/ \E s \in 1..Len(starts) : StartInitialScan(s)
  \/ \E s \in 1..Len(starts) : StartInstallTimer(s)
  \/ \E t \in timers : TimerFires(t)
  \/ \E c \in 1..Len(cycles) : ScanGate(c)
  \/ \E c \in 1..Len(cycles) : ScanFetchOrFail(c)
  \/ \E c \in 1..Len(cycles) : ScanInsert(c)
  \/ \E c \in 1..Len(cycles) : ScanDispatch(c)
  \/ \E c \in 1..Len(cycles) : ScanEvict(c)

SpecPairs == Init /\ [][NextPairs]_vars

\* One execution attempt, called by a scan cycle or by POST
\* /api/arbitrage/execute, for every stored configuration, environment,
\* opportunity and mode; stopScanning may run while it is in flight.
InitExec ==
  /\ isScanning \in BOOLEAN
  /\ scanInterval = NoTimer
  /\ opportunities = <<>>
  /\ timers = {}
  /\ botConfig \in ExecConfigs
  /\ now = 0
  /\ starts = <<>>
  /\ cycles = <<>>
  /\ inflight = {}
  /\ nextId = 1
  /\ inserted = {}
  /\ stopped = FALSE
  /\ epc = "start"
  /\ ecfg = NoConfig
  /\ eenv \in [PRIVATE_KEY : EnvKeys, ARBITRAGE_CONTRACT : BOOLEAN]
  /\ eopp \in ExecOpportunities
  /\ isSimulation \in BOOLEAN
  /\ privateKey = NoKey
  /\ swaps = [buy |-> NoResult, sell |-> NoResult]
  /\ contractCode = "unread"
  /\ calls = <<>>
  /\ wire = <<>>
  /\ logs = <<>>
  /\ records = <<>>
  /\ result = NoResult
  /\ ContractConstructed

NextExec ==
  \/ ExecLoadConfig
  \/ ExecBalance
  \/ ExecGas
  \/ ExecSimulate
  \/ ExecPrepare
  \/ ExecBuildBuy
  \/ ExecBuildSell
  \/ ExecResolveContract
  \/ ExecGetCode
  \/ ExecFlashLoan
  \/ ExecNotify
  \/ (~stopped /\ StopScanning)

SpecExec == InitExec /\ [][NextExec]_vars

\* The start of a session, up to the installation of its timer: the initial
\* scan, whose first dispatched attempt is followed stage by stage while the
\* scan, the clock and the other dispatches go on around it.  The stored
\* configuration is the simulation default, or real mode fully set up.
InitTrade ==
  /\ isScanning = FALSE
  /\ scanInterval = NoTimer
  /\ opportunities = <<>>
  /\ timers = {}
  /\ botConfig \in
       { BaseConfig,
         [BaseConfig EXCEPT !.useSimulation = "false", !.enableRealTrading = TRUE,
                            !.privateKey = Key(66, TRUE, TRUE),
                            !.oneinchApiKey = TRUE, !.flashLoanContract = TRUE] }
  /\ now = 0
  /\ starts = <<>>
  /\ cycles = <<>>
  /\ inflight = {}
  /\ nextId = 1
  /\ inserted = {}
  /\ stopped = FALSE
  /\ ExecIdle
  /\ ContractConstructed

\* The next step of scan() call c.
CycleStep(c) ==
  /\ c \in 1..Len(cycles)
  /\ \/ ScanGate(c)
     \/ ScanFetchFew(c)
     \/ ScanInsert(c)
     \/ ScanDispatchFollowed(c)
     \/ ScanEvict(c)

\* The next stage of the followed attempt.
ExecStep ==
  \/ ExecLoadConfig
  \/ ExecBalance
  \/ ExecGas
  \/ ExecSimulate
  \/ ExecPrepare
  \/ ExecBuildBuy
  \/ ExecBuildSell
  \/ ExecResolveContract
  \/ ExecGetCode
  \/ ExecFlashLoan
  \/ ExecNotify

NextTrade ==
  \/ StartSession
  \/ Tick
  \/ \E s \in 1..Len(starts) : StartConfigured(s)
  \/ \E s \in 1..Len(starts) : StartInitialScan(s)
  \/ \E s \in 1..Len(starts) : StartInstallTimer(s)
  \/ \E c \in 1..MaxCycles : CycleStep(c)
  \/ ExecStep
  \/ \E e \in inflight :
       /\ (epc # "idle" /\ e.id = eopp.id) => epc = "done"
       /\ ExecutionSettles(e)

SpecTrade == InitTrade /\ [][NextTrade]_vars

\* The same under the scheduling the runtime gives: every continuation that
\* is ready to run is run, and every awaited call settles - it answers, it
\* fails, or its bounded timeout makes it fail.
SpecTradeLive ==
  /\ SpecTrade
  /\ \A c \in 1..MaxCycles : WF_vars(CycleStep(c))
  /\ WF_vars(ExecStep)

\* The deployed contract under every sequence of transactions from the
\* owner, two other accounts and the Pool.
InitContract ==
  /\ ScannerInit
  /\ botConfig = NoConfig
  /\ ExecIdle
  /\ ContractConstructed

NextContract ==
  \/ \E sender \in Accounts, amount \in Amounts, premium \in Premiums,
        routed \in SwapOutcomes, after \in Afters, minProfit \in MinProfits :
       ExecuteArbitrage(sender, amount, premium, routed[1], routed[2], after,
                        minProfit)
  \/ \E sender \in Accounts \cup {Pool}, initiator \in {Deployer, This} :
       CallExecuteOperation(sender, initiator, MaxUint - 1, 0, TRUE, TRUE,
                            MaxUint, 0)
  \/ \E sender \in Accounts, executor \in Accounts : AddExecutor(sender, executor)
  \/ \E sender \in Accounts, executor \in Accounts : RemoveExecutor(sender, executor)
  \/ \E sender \in Accounts, newOwner \in {Deployer, "alice"} :
       TransferOwnership(sender, newOwner)
  \/ \E sender \in Accounts, token \in {"native", "asset"}, amount \in {1, 2} :
       EmergencyWithdraw(sender, token, amount)
  \/ \E sender \in Accounts : WithdrawProfits(sender)
  \/ \E sender \in Accounts : Receive(sender)

SpecContract == InitContract /\ [][NextContract]_vars

\* authorizeExecutor calls for an executor, signed by the deployer's or by
\* another account's key, while the configuration is saved and the accounts
\* send their own transactions to the contract.
NextAuthorize ==
  \/ \E cfg \in AuthConfigs : ConfigSaved(cfg)
  \/ \E signer \in {Deployer, "alice"} : AuthorizeExecutor("bob", signer)
  \/ AuthConfig
  \/ AuthBalance
  \/ AuthOwner
  \/ AuthApproved
  \/ AuthSend
  \/ AuthRecheck
  \/ \E sender \in Accounts : AddExecutor(sender, "bob")
  \/ \E sender \in Accounts : RemoveExecutor(sender, "bob")
  \/ \E sender \in Accounts, newOwner \in {Deployer, "alice"} :
       TransferOwnership(sender, newOwner)

SpecAuthorize == InitContract /\ [][NextAuthorize]_vars

\* ------------------------------------------------------------------- claims
\* The scan cycles whose locals (config, gasGwei, cmps, opps) are live:
\* past the gas gate and the quote fetch, not yet returned.
Comparing == {c \in 1..Len(cycles) : cycles[c].pc \in {"dispatch", "exec"}}
\* The scan cycles whose loop over newOpportunities has ended.
LoopEnded ==
  {c \in Comparing : cycles[c].pc = "dispatch"
                     /\ cycles[c].idx > Len(cycles[c].opps)}

\* The three thresholds of a cycle's ScannerConfig, applied to the metrics
\* of one comparison m made at gas price gasGwei:
\*   profitPercent    = 200 |t1 - t2| / (t1 + t2)  >=  minProfitPercent / 100
\*   netProfitPercent = netE5 / (1000 loan)        >=  minNetProfitPercent / 100
\*   netProfitUsd     = netE5 / E5                 >=  minProfitUsd / 100
MeetsThresholds(m, config, gasGwei) ==
  LET gross == ProfitPercent(m.q1, m.q2)
      net == NetProfitUsd(m.q1, m.q2, m.loan, gasGwei)
  IN /\ gross.n * 100 >= config.minProfitPercent * gross.d
     /\ net >= config.minNetProfitPercent * 10 * m.loan
     /\ net >= config.minProfitUsd * 1000

\* C1: in a cycle that passed the gas gate, a comparison of two successful
\* quotes yields a candidate if and only if its gross percent, net percent
\* and net USD all reach the cycle's thresholds; only candidates are written
\* to the Registry, and when the cycle's loop has ended every candidate has
\* been written.
C1_InsertedIffThresholds ==
  /\ \A c \in Comparing : \A k \in 1..Len(cycles[c].cmps) :
       LET m == cycles[c].cmps[k]
           ok == MeetsThresholds(m, cycles[c].config, cycles[c].gasGwei)
       IN /\ (m.id # 0) <=> ok
          /\ (m.id \in inserted) => ok
          /\ (m.id \in DOMAIN opportunities) => ok
  /\ \A c \in LoopEnded : \A k \in 1..Len(cycles[c].cmps) :
       LET m == cycles[c].cmps[k]
       IN (m.id \in inserted)
            <=> MeetsThresholds(m, cycles[c].config, cycles[c].gasGwei)

\* C1 witness: a cycle whose loop has ended made one comparison that was
\* written to the Registry and one that was excluded.
C1_Witness ==
  \E c \in LoopEnded :
    /\ \E k \in 1..Len(cycles[c].cmps) : cycles[c].cmps[k].id \in inserted
    /\ \E k \in 1..Len(cycles[c].cmps) : cycles[c].cmps[k].id = 0

\* C2: while stopScanning has run and startScanning has not been called
\* since, no scan cycle starts.
C2_NoCycleAfterStop ==
  [][Len(cycles') > Len(cycles) => ~stopped]_vars

\* C3: an execution attempt that has returned has written exactly one
\* execution record.
C3_ExactlyOneRecord ==
  epc = "done" => Len(records) = 1

\* C4: when a cycle's eviction pass has run, the Registry holds no
\* opportunity whose timestamp is more than 60 s before the time of the pass,
\* whatever became of its execution.
C4_EvictionLeavesNoStale ==
  [][\A c \in 1..Len(cycles) :
       (cycles[c].pc = "dispatch" /\ cycles'[c].pc = "done")
         => \A i \in DOMAIN opportunities' :
              ~(now' - opportunities'[i].timestamp > StaleMs)]_vars

\* C4 witness: an opportunity that was written to the Registry and
\* dispatched, its execution still in flight, is no longer in the Registry.
C4_Witness ==
  \E e \in inflight : e.id \in inserted /\ e.id \notin DOMAIN opportunities

\* C5: an attempt run with isSimulation = true never calls executeFlashLoan,
\* buildSwapTransaction or getCode.
C5_SimulationMakesNoChainCall ==
  isSimulation =>
    \A i \in 1..Len(calls) :
      calls[i] \notin {"executeFlashLoan", "buildSwapTransaction", "getCode"}

\* C5 witness: a simulation attempt has returned success after writing its
\* record and sending its notification.
C5_Witness ==
  /\ isSimulation
  /\ epc = "done"
  /\ result.success
  /\ Len(records) = 1
  /\ \E i \in 1..Len(calls) : calls[i] = "sendTelegramMessage"

\* C6: an attempt run with isSimulation = true returns success = true with a
\* placeholder transaction id.
C6_SimulationAlwaysSucceeds ==
  (isSimulation /\ epc = "done") => (result.success /\ result.txHash = "mock")

\* C7: executeFlashLoan is only ever called after getCode, and once getCode
\* has returned '0x' the attempt has ended with a failed result and a
\* 'failed' record, without an executeFlashLoan call.
C7_EmptyCodeNoFlashLoan ==
  /\ \A i \in 1..Len(calls) :
       calls[i] = "executeFlashLoan" => \E j \in 1..(i - 1) : calls[j] = "getCode"
  /\ contractCode = "0x" =>
       /\ epc = "done"
       /\ ~result.success
       /\ records[Len(records)].status = "failed"
       /\ \A i \in 1..Len(calls) : calls[i] # "executeFlashLoan"

\* C7 witness: a real-mode attempt read '0x' at the contract address and
\* has returned.
C7_Witness ==
  ~isSimulation /\ contractCode = "0x" /\ epc = "done"

\* C8: a cycle goes past the gas gate only with a gas price at or below its
\* ceiling; a cycle that met a higher price has written exactly one skip
\* log, requested no quote, written nothing to the Registry and dispatched
\* nothing, and no other cycle writes a skip log.
C8_GasGateSkips ==
  \A c \in 1..Len(cycles) :
    LET cyc == cycles[c]
    IN /\ cyc.pc \in {"fetch", "dispatch", "exec"}
            => cyc.gasGwei <= cyc.config.maxGasPriceGwei
       /\ cyc.outcome = "skipped"
            => /\ cyc.skipLogs = 1
               /\ cyc.errLogs = 0
               /\ cyc.quoteReqs = 0
               /\ cyc.nInserted = 0
               /\ cyc.nDispatched = 0
       /\ cyc.outcome # "skipped" => cyc.skipLogs = 0

\* C8 witness: a cycle was skipped at the gas gate after another cycle had
\* written an opportunity to the Registry.
C8_Witness ==
  /\ \E c \in 1..Len(cycles) : cycles[c].outcome = "skipped"
  /\ inserted # {}

\* C9: every opportunity the Comparator creates buys at the venue of the
\* quote with the lower price and sells at the venue of the quote with the
\* higher price, and the two venues differ.
C9_BuyLowSellHigh ==
  \A c \in Comparing : \A k \in 1..Len(cycles[c].cmps) :
    LET m == cycles[c].cmps[k]
        lo == IF m.q1.toAmount < m.q2.toAmount THEN m.q1 ELSE m.q2
        hi == IF m.q1.toAmount < m.q2.toAmount THEN m.q2 ELSE m.q1
    IN m.id # 0 =>
         \E j \in 1..Len(cycles[c].opps) :
           LET opp == cycles[c].opps[j]
           IN /\ opp.id = m.id
              /\ lo.toAmount < hi.toAmount
              /\ opp.buyDex = lo.dex
              /\ opp.sellDex = hi.dex
              /\ opp.buyPrice = lo.toAmount
              /\ opp.sellPrice = hi.toAmount
              /\ opp.buyDex # opp.sellDex

\* C9 witness: opportunities were created both from a comparison whose
\* cheaper quote came first and from one whose cheaper quote came second.
C9_Witness ==
  /\ \E c \in Comparing : \E k \in 1..Len(cycles[c].cmps) :
       LET m == cycles[c].cmps[k]
       IN m.id # 0 /\ m.q1.toAmount < m.q2.toAmount
  /\ \E c \in Comparing : \E k \in 1..Len(cycles[c].cmps) :
       LET m == cycles[c].cmps[k]
       IN m.id # 0 /\ m.q1.toAmount > m.q2.toAmount

\* The classifications of the configuration class: missing credential,
\* credential malformed, missing API key, missing contract.
ConfigurationClass ==
  {"missing_private_key", "missing_api_key", "contract_not_deployed"}

\* C10: an attempt whose credential, after the 0x prefix is added, is not 66
\* characters long has returned failed, classified in the configuration
\* class, having made no chain call and no quote-source call.
C10_MalformedCredentialAborts ==
  (epc = "done" /\ privateKey.len > 0 /\ privateKey.len # KeyLength) =>
    /\ ~result.success
    /\ calls = <<>>
    /\ logs[Len(logs)].errorType \in ConfigurationClass


\* C11: the spread of a comparison does not depend on the order of its two
\* quotes: |price difference| and the gross spread percent of (q1, q2) equal
\* those of (q2, q1), and the opportunity created carries that percent.
C11_SpreadSymmetric ==
  \A c \in Comparing : \A k \in 1..Len(cycles[c].cmps) :
    LET m == cycles[c].cmps[k]
    IN /\ PriceDiff(m.q1, m.q2) = PriceDiff(m.q2, m.q1)
       /\ ProfitPercent(m.q1, m.q2) = ProfitPercent(m.q2, m.q1)
       /\ \A j \in 1..Len(cycles[c].opps) :
            cycles[c].opps[j].id = m.id =>
              cycles[c].opps[j].profitPercent = ProfitPercent(m.q2, m.q1)

\* C11 witness: a cycle compared two quotes of different prices with the
\* dearer quote first, and an opportunity was created from them.
C11_Witness ==
  \E c \in Comparing : \E k \in 1..Len(cycles[c].cmps) :
    LET m == cycles[c].cmps[k]
    IN /\ m.q1.toAmount > m.q2.toAmount
       /\ PriceDiff(m.q2, m.q1) > 0
       /\ \E j \in 1..Len(cycles[c].opps) : cycles[c].opps[j].id = m.id

\* C12: an execution in flight holds no step of the scanner back: with
\* executions in flight a cycle in its loop can insert and dispatch the next
\* opportunity, a cycle whose loop has ended can evict and return, and an
\* installed timer can start the next cycle.
C12_ScanNeverAwaitsExecution ==
  inflight # {} =>
    /\ \A c \in 1..Len(cycles) :
         /\ (cycles[c].pc = "dispatch" /\ cycles[c].idx <= Len(cycles[c].opps))
              => ENABLED ScanInsert(c)
         /\ cycles[c].pc = "exec" => ENABLED ScanDispatch(c)
         /\ (cycles[c].pc = "dispatch" /\ cycles[c].idx > Len(cycles[c].opps))
              => ENABLED ScanEvict(c)
    /\ \A t \in timers : Len(cycles) < MaxCycles => ENABLED TimerFires(t)

\* C12 witness: a cycle that dispatched has completed and a timer cycle has
\* started after it, while the execution it dispatched is still in flight.
C12_Witness ==
  \E c1, c2 \in 1..Len(cycles) :
    /\ c1 < c2
    /\ cycles[c1].outcome = "completed"
    /\ cycles[c1].nDispatched > 0
    /\ cycles[c2].kind = "timer"
    /\ \A c \in 1..Len(cycles) : c # c1 => cycles[c].nDispatched = 0
    /\ \E e \in inflight : e.by = "scan"

\* C13: when a cycle's eviction pass runs, every opportunity the cycle
\* created has been written to the Registry, and the pass removes none of
\* them.
C13_OwnOpportunitiesSurviveEviction ==
  [][\A c \in 1..Len(cycles) :
       (cycles[c].pc = "dispatch" /\ cycles'[c].pc = "done") =>
         \A j \in 1..Len(cycles[c].opps) :
           /\ cycles[c].opps[j].id \in inserted
           /\ cycles[c].opps[j].id \in DOMAIN opportunities
                => cycles[c].opps[j].id \in DOMAIN opportunities']_vars

\* C14: an attempt whose candidate is older than the 30 s re-validation
\* window, or whose net profit percent is below the stored minimum, returns
\* failed without any chain or quote-source call.
C14_StaleCandidateRejected ==
  (epc = "done" /\ ~ValidateOpportunity(botConfig, eopp)) =>
    (~result.success /\ calls = <<>>)

\* C15: an opportunity handed to an execution attempt is marked invalid,
\* and no two attempts, dispatched or manually requested, are made for one
\* opportunity id.
C15_OneAttemptPerOpportunity ==
  /\ \A e1, e2 \in inflight : e1.id = e2.id => e1 = e2
  /\ \A e \in inflight :
       e.id \in DOMAIN opportunities => ~opportunities[e.id].isValid

\* C16: when the notification call ends, however it ends, the attempt
\* returns success and its records stay as they were.
C16_NotifyFailureIsAbsorbed ==
  [][(epc \in {"simnotify", "notify"} /\ epc' = "done")
       => (result'.success /\ records' = records)]_vars

\* The error-level entries of the attempt's log.
ErrorLogs == {i \in 1..Len(logs) : logs[i].level = "error"}
\* The 'failed' records of the attempt.
FailedRecords == {i \in 1..Len(records) : records[i].status = "failed"}
\* The positions of the calls to f.
CallsTo(f) == {i \in 1..Len(calls) : calls[i] = f}

\* C17: an attempt that returned failed wrote exactly one error-level log
\* entry.
C17_OneErrorLogPerFailure ==
  (epc = "done" /\ ~result.success) => Cardinality(ErrorLogs) = 1

\* A stage of the attempt failed: the balance check, or a stage whose error
\* reached the catch.
BalanceStageFailed ==
  \E i \in 1..Len(logs) : logs[i].step = "3_balance_check_failed"
StageFailed ==
  BalanceStageFailed \/ \E i \in 1..Len(logs) : logs[i].step = "catch"

\* C18: once a stage has failed no later stage runs (after a failed balance
\* stage there is no gas read), and the attempt returns success = false with
\* exactly one 'failed' record.
C18_FailureAbortsAndIsRecorded ==
  /\ BalanceStageFailed => CallsTo("getGasPrice") = {}
  /\ (epc = "done" /\ StageFailed)
       => (~result.success /\ Cardinality(FailedRecords) = 1)

\* C19: the route of leg B is requested only after the route of leg A was
\* returned; an attempt whose leg A failed has ended having requested one
\* route.
C19_LegBOnlyAfterLegA ==
  /\ Cardinality(CallsTo("buildSwapTransaction")) <= 2
  /\ Cardinality(CallsTo("buildSwapTransaction")) = 2 => swaps.buy # NoResult
  /\ (Cardinality(CallsTo("buildSwapTransaction")) >= 1 /\ swaps.buy = NoResult)
       => (epc \in {"sell", "done"} => (epc = "done" /\ ~result.success))

\* C19 witness: a real-mode attempt has ended failed at leg A, with one
\* route request made.
C19_Witness ==
  /\ epc = "done"
  /\ swaps.buy = NoResult
  /\ Cardinality(CallsTo("buildSwapTransaction")) = 1

\* C20: the ScanConfig of a startScanning call is the one built from the
\* stored configuration when the call read it, and never changes afterwards;
\* every running cycle uses the ScanConfig of the startScanning call that
\* made it, whatever the stored configuration has become.
C20_SessionConfigFixedAtStart ==
  [][/\ \A s \in 1..Len(starts) :
          /\ starts[s].config # NoConfig => starts'[s].config = starts[s].config
          /\ (starts[s].pc = "cfg" /\ starts'[s].pc = "log")
               => starts'[s].config = ScannerConfig(botConfig)
     /\ \A c \in 1..Len(cycles') :
          cycles'[c].pc # "done"
            => cycles'[c].config = starts'[cycles'[c].start].config]_vars

\* C20 witness: the stored configuration was saved during the first session;
\* a timer cycle of that session still runs with the session's ScanConfig,
\* which differs from the one the stored configuration gives now, and a
\* second startScanning call after the stop has resolved that new one.
C20_Witness ==
  /\ Len(starts) = 2
  /\ starts[2].config # NoConfig
  /\ starts[2].config # starts[1].config
  /\ starts[2].config = ScannerConfig(botConfig)
  /\ \E c \in 1..Len(cycles) :
       /\ cycles[c].kind = "timer"
       /\ cycles[c].pc # "done"
       /\ cycles[c].start = 1
       /\ cycles[c].config = starts[1].config

\* ---------------------------------------------- claims C21..C30
\* C21: whenever a scan cycle ends, completed, skipped at the gas gate or
\* ended by an error, the Registry holds no entry older than the staleness
\* window.
C21_EveryCycleEvicts ==
  [][\A c \in 1..Len(cycles) :
       (cycles[c].pc # "done" /\ cycles'[c].pc = "done") =>
         \A i \in DOMAIN opportunities' : ~Stale(opportunities'[i], now')]_vars

\* Fractions n / d in lowest terms, and their difference.
RECURSIVE Gcd(_, _)
Gcd(a, b) == IF b = 0 THEN a ELSE Gcd(b, a % b)
Lowest(r) ==
  LET g == Gcd(Abs(r.n), r.d)
  IN [n |-> r.n \div g, d |-> r.d \div g]
Minus(x, y) ==
  LET a == Lowest(x)
      b == Lowest(y)
  IN Lowest([n |-> a.n * b.d - b.n * a.d, d |-> a.d * b.d])

\* C22: the netProfitPercent of every opportunity created equals its
\* profitPercent minus its gas cost and its loan fee, each as a percentage
\* of the loan amount (USD amounts in E5: percent = amount / (1000 loan)).
C22_NetPercentFromGrossPercent ==
  \A c \in Comparing : \A j \in 1..Len(cycles[c].opps) :
    LET opp == cycles[c].opps[j]
        costs == [n |-> opp.estimatedGasCostUsd + opp.flashLoanFeeUsd,
                  d |-> 1000 * opp.flashLoanAmount]
    IN Lowest(opp.netProfitPercent) = Minus(opp.profitPercent, costs)

\* The balance stage read a balance below the 0.1 minimum: the step-3 log
\* was written and the stage then failed.
LowBalanceRead ==
  /\ \E i \in 1..Len(logs) : logs[i].step = "3_balance_check"
  /\ \E i \in 1..Len(logs) : logs[i].step = "3_balance_check_failed"

\* C23: a real-mode attempt that read a native balance below the minimum
\* requests no swap route and no flash loan, and ends failed.
C23_LowBalanceAborts ==
  (~isSimulation /\ LowBalanceRead) =>
    /\ CallsTo("buildSwapTransaction") = {}
    /\ CallsTo("executeFlashLoan") = {}
    /\ epc = "done" => ~result.success

\* C24: the flash loan is invoked only when both built legs carry a call
\* target and a call payload of their own; an attempt with a leg that lacks
\* either ends failed without the invocation.
C24_MalformedRouteRejected ==
  /\ CallsTo("executeFlashLoan") # {} =>
       /\ swaps.buy.to # "none" /\ swaps.sell.to # "none"
       /\ swaps.buy.data /\ swaps.sell.data
  /\ (epc = "done" /\ swaps.buy # NoResult /\ swaps.sell # NoResult
        /\ (swaps.buy.to = "none" \/ swaps.sell.to = "none"
            \/ ~swaps.buy.data \/ ~swaps.sell.data))
       => ~result.success

\* C25: a real-mode attempt that has read the configuration while real
\* trading is not enabled, or while no signing key is stored or in the
\* environment, has ended failed without any call to the chain, the quote
\* source or the flash loan.
C25_RealNeedsSwitchAndKey ==
  (~isSimulation /\ epc # "start"
     /\ (botConfig = NoConfig \/ ~botConfig.enableRealTrading
         \/ NormalisedKey(botConfig, eenv).len = 0))
    => (epc = "done" /\ ~result.success /\ calls = <<>>)

\* C25 witness: real trading is enabled, no key is stored or in the
\* environment, and the real-mode attempt has ended failed for the missing
\* key.
C25_Witness ==
  /\ ~isSimulation
  /\ epc = "done"
  /\ botConfig # NoConfig
  /\ botConfig.enableRealTrading
  /\ NormalisedKey(botConfig, eenv).len = 0
  /\ result.error = MsgNoKey
  /\ calls = <<>>

\* C26: executeArbitrage reaches the flash-loan request only when its caller
\* is the owner or has approvedExecutors[caller] set at the time of the call;
\* every change of approvedExecutors is made by an addExecutor or
\* removeExecutor transaction of the owner; an emergencyWithdraw succeeds, and
\* any balance leaves the contract other than to repay the Pool, only in a
\* transaction of the owner.
C26_OnlyAuthorizedCallers ==
  [][/\ (tx'.fn = "executeArbitrage" /\ tx'.loan)
          => (tx'.sender = owner \/ approvedExecutors[tx'.sender])
     /\ approvedExecutors' # approvedExecutors
          => (tx'.sender = owner /\ tx'.fn \in {"addExecutor", "removeExecutor"})
     /\ (tx'.fn = "emergencyWithdraw" /\ tx'.ok) => tx'.sender = owner
     /\ (tx'.fn \in {"emergencyWithdraw", "withdrawProfits"} /\ balances' # balances)
          => tx'.sender = owner]_vars

\* An approved executor other than the owner obtained a flash loan that
\* repaid with a profit, while another account is not approved.
C26_Witness ==
  /\ approvedExecutors["alice"] /\ ~approvedExecutors["bob"]
  /\ tx = Tx("executeArbitrage", "alice", TRUE, TRUE)
  /\ totalProfits > 0

\* C27: executeOperation returns true only when it was called by the Pool
\* with this contract as initiator, the balance after the swaps covers
\* amount + premium, and the surplus is at least minProfit; a call that does
\* not return true reverts, leaving totalProfits and the rest of the
\* contract's state as they were, and totalProfits grows only by the surplus
\* of a call that returned true.
C27_OperationGuards ==
  [][/\ op'.returned
          => /\ op'.sender = Pool
             /\ op'.initiator = This
             /\ op'.after >= op'.amount + op'.premium
             /\ op'.after - (op'.amount + op'.premium) >= op'.minProfit
     /\ (op' # NoOp /\ ~op'.returned)
          => /\ totalProfits' = totalProfits
             /\ balances' = balances
             /\ approvedExecutors' = approvedExecutors
             /\ ~tx'.ok
     /\ totalProfits' # totalProfits
          => /\ op'.returned
             /\ totalProfits' = totalProfits + (op'.after - (op'.amount + op'.premium))]_vars

\* A call that met its minimum profit exactly returned true after earlier
\* profit had been recorded.
C27_Witness ==
  /\ op.returned
  /\ op.minProfit > 0
  /\ op.after - (op.amount + op.premium) = op.minProfit
  /\ totalProfits > op.minProfit
  /\ tx.fn = "executeArbitrage" /\ tx.ok

\* C28: an execution started by a scan cycle or by the manual route is in
\* real mode only if the stored configuration exists and has useSimulation
\* set to false at that moment; with no configuration or the flag unset it
\* is a simulation.
C28_SimulationByDefault ==
  [][\A e \in inflight' \ inflight :
       ~e.isSimulation => (botConfig # NoConfig /\ botConfig.useSimulation = "false")]_vars

\* C28 witness: with a stored configuration whose flag is unset, a manual
\* request has started a simulation, next to a real-mode execution started
\* while the flag was false.
C28_Witness ==
  /\ botConfig # NoConfig
  /\ botConfig.useSimulation = "unset"
  /\ \E e \in inflight : e.by = "manual" /\ e.isSimulation /\ e.id = nextId - 1
  /\ \E e \in inflight : ~e.isSimulation

\* The number of fulfilled quotes among the settled quotes of a pair.
Fulfilled(quotes) ==
  IF quotes = PairFailed THEN 0
  ELSE Cardinality({i \in 1..Len(quotes) : quotes[i].ok})

\* C29: in a cycle past the quote fetch, for every pair the comparisons made
\* are exactly those between two fulfilled quotes, whatever the other quotes
\* of the pair did; a pair with fewer than two fulfilled quotes, or whose scan
\* failed as a whole, has no opportunity; and every candidate of every other
\* pair is among the cycle's new opportunities, all of them written to the
\* Registry when the loop has ended.
C29_PartialFailuresTolerated ==
  \A c \in Comparing :
    LET cyc == cycles[c]
        pairs == cyc.config.tokenPairs
    IN /\ \A p \in 1..Len(pairs) : \A k \in 1..Len(IndexPairs) :
            LET both == /\ cyc.quotes[p] # PairFailed
                        /\ cyc.quotes[p][IndexPairs[k][1]].ok
                        /\ cyc.quotes[p][IndexPairs[k][2]].ok
                made == \E m \in 1..Len(cyc.cmps) :
                          /\ cyc.cmps[m].pair = pairs[p]
                          /\ cyc.quotes[p] # PairFailed
                          /\ cyc.cmps[m].q1 = cyc.quotes[p][IndexPairs[k][1]]
                          /\ cyc.cmps[m].q2 = cyc.quotes[p][IndexPairs[k][2]]
            IN made <=> both
       /\ \A p \in 1..Len(pairs) :
            Fulfilled(cyc.quotes[p]) < 2 =>
              /\ \A m \in 1..Len(cyc.cmps) : cyc.cmps[m].pair # pairs[p]
              /\ \A j \in 1..Len(cyc.opps) : cyc.opps[j].pair # pairs[p]
       /\ \A m \in 1..Len(cyc.cmps) :
            /\ cyc.cmps[m].id # 0
                 <=> MeetsThresholds(cyc.cmps[m], cyc.config, cyc.gasGwei)
            /\ cyc.cmps[m].id # 0 =>
                 /\ \E j \in 1..Len(cyc.opps) :
                      /\ cyc.opps[j].id = cyc.cmps[m].id
                      /\ cyc.opps[j].pair = cyc.cmps[m].pair
                 /\ c \in LoopEnded => cyc.cmps[m].id \in DOMAIN opportunities

\* C29 witness: in a cycle over two pairs the scan of the first pair failed
\* as a whole and one venue of the second pair failed; the second pair's
\* opportunity, from its two remaining venues, is in the Registry.
C29_Witness ==
  \E c \in Comparing :
    /\ Len(cycles[c].quotes) = 2
    /\ cycles[c].quotes[1] = PairFailed
    /\ Fulfilled(cycles[c].quotes[2]) = 2
    /\ \E j \in 1..Len(cycles[c].opps) :
         /\ cycles[c].opps[j].pair = cycles[c].config.tokenPairs[2]
         /\ cycles[c].opps[j].id \in DOMAIN opportunities

\* C30: the step in which a cycle's gas read fails leaves the Registry, the
\* executions in flight, the installed timers and the scanning flag as they
\* were and ends the cycle with nothing dispatched; after a cycle has ended
\* that way every installed timer can still start the next cycle.
C30_GateFailureAbsorbed ==
  [][/\ \A c \in 1..Len(cycles) :
          (cycles[c].pc = "gate" /\ cycles'[c].outcome = "error") =>
            /\ opportunities' = opportunities
            /\ inflight' = inflight
            /\ timers' = timers
            /\ scanInterval' = scanInterval
            /\ isScanning' = isScanning
            /\ cycles'[c].pc = "done"
            /\ cycles'[c].nDispatched = 0
     /\ (\E c \in 1..Len(cycles) : cycles[c].outcome = "error") =>
          \A t \in timers : Len(cycles) < MaxCycles => ENABLED TimerFires(t)]_vars

\* C30 witness: with the timer installed and an opportunity in the Registry,
\* a timer cycle has ended at a failed gas read; the timer and the entry are
\* still there.
C30_Witness ==
  /\ timers # {}
  /\ opportunities # <<>>
  /\ \E c \in 1..Len(cycles) :
       /\ cycles[c].kind = "timer"
       /\ cycles[c].outcome = "error"
       /\ cycles[c].errLogs = 1

\* ------------------------------------------------------- claims C31..C39
\* The executeFlashLoan calls among the exchanges of the attempt.
FlashCalls == {i \in 1..Len(wire) : "success" \in DOMAIN wire[i]}

\* C31: from its dispatch to its return an execution attempt leaves the
\* Registry as it is - no step of the attempt inserts, removes or modifies
\* an entry - and its snapshot stays the opportunity it was dispatched with,
\* whatever happens to the Registry meanwhile.
C31_ExecutorLeavesRegistryAlone ==
  [][/\ (epc # "idle" /\ evars' # evars) => opportunities' = opportunities
     /\ (epc = "idle" /\ epc' # "idle") => opportunities' = opportunities
     /\ epc # "idle" => eopp' = eopp]_vars

\* C31 witness: a real attempt reached the flash loan after its opportunity
\* had been evicted from the Registry; its snapshot still carries the
\* opportunity's id and profit.
C31_Witness ==
  /\ epc = "done"
  /\ FlashCalls # {}
  /\ eopp.id \in inserted
  /\ eopp.id \notin DOMAIN opportunities
  /\ eopp.estimatedProfitUsd > 0

\* C32: scan cycles never overlap: at any time at most one scan() call is
\* between its start and its return.
C32_CyclesNeverOverlap ==
  Cardinality({c \in 1..Len(cycles) : cycles[c].pc # "done"}) <= 1

\* C33: at most one scan timer is installed at any time, and every installed
\* timer is the one scanInterval holds, the one stopScanning clears.
C33_StopCancelsEveryTimer ==
  /\ Cardinality(timers) <= 1
  /\ \A t \in timers : t = scanInterval

\* The 'pending' records of the attempt.
PendingRecords == {i \in 1..Len(records) : records[i].status = "pending"}

C35_NotifyOnlyAboveThreshold ==
  /\ CallsTo("sendTelegramMessage") # {}
       => ProfitUsdGE(eopp.estimatedProfitUsd, TelegramThreshold(ecfg))
  /\ Cardinality(CallsTo("sendTelegramMessage")) <= 1
  /\ (epc = "done" /\ result.success
        /\ ProfitUsdGE(eopp.estimatedProfitUsd, TelegramThreshold(ecfg)))
       => Cardinality(CallsTo("sendTelegramMessage")) = 1

\* The buildSwapTransaction calls among the exchanges of the attempt.
RouteCalls == {i \in 1..Len(wire) : "src" \in DOMAIN wire[i]}

\* What a route request may carry: the token addresses and the amount of its
\* leg, the public wallet address and the slippage.
PublicRequests ==
  { [src |-> "tokenIn", dst |-> "tokenOut", amount |-> "loanAmount",
     from |-> "0xWallet", slippage |-> 1],
    [src |-> "tokenOut", dst |-> "tokenIn", amount |-> "buySwap.toAmount",
     from |-> "0xWallet", slippage |-> 1] }

\* C36: every request sent to the route service consists of public values
\* only - the credential reaches it through the derived address and in no
\* other way - so attempts whose credentials derive the same address (stored
\* with or without the 0x prefix, in the configuration or in the environment)
\* send identical requests.
C36_RoutesNeverSeeTheKey ==
  \A i \in RouteCalls : wire[i] \in PublicRequests

\* C36 witness: an attempt whose credential is stored without the prefix has
\* sent both route requests and then handed the normalised credential to the
\* flash-loan call.
C36_Witness ==
  /\ ecfg # NoConfig
  /\ ecfg.privateKey = Key(64, FALSE, TRUE)
  /\ Cardinality(RouteCalls) = 2
  /\ \E i \in FlashCalls : wire[i].credential = Key(66, TRUE, TRUE)

\* No startScanning call is between its entry and its return.
Quiescent ==
  \A s \in 1..Len(starts) : starts[s].pc \in {"done", "running", "failed"}

\* C37: whenever no startScanning or stopScanning call is in progress,
\* isRunning() is true if and only if a scan timer is installed.
C37_RunningIffTimer ==
  Quiescent => (isScanning <=> timers # {})

C39_AuthorizeSendsOnlyWhenChecked ==
  [][ /\ (auth'.sent # auth.sent /\ auth'.sent > 0) =>
           /\ auth.pc = "send"
           /\ auth.sent = 0
           /\ auth.config # NoConfig
           /\ auth.config.privateKey.len # 0
           /\ auth.config.flashLoanContract
           /\ auth.config.rpcUrl
           /\ auth.balance = "enough"
           /\ auth.contractOwner = auth.signer
           /\ auth.isApproved = FALSE
           /\ tx'.fn = "addExecutor"
           /\ tx'.sender = auth.signer
      /\ (auth' # auth /\ auth'.sent = auth.sent) =>
           UNCHANGED <<owner, approvedExecutors, totalProfits, balances, tx>>
      /\ (auth.pc # "done" /\ auth'.pc = "done") =>
           /\ "success" \in DOMAIN auth'.result
           /\ auth'.result.success => approvedExecutors'[auth.executor]
    ]_vars

\* C39 witness: a call sent the addExecutor transaction and returned success
\* with the executor approved.
C39_Witness ==
  /\ auth.pc = "done"
  /\ auth.sent = 1
  /\ auth.result.success
  /\ approvedExecutors[auth.executor]
  /\ tx.fn = "addExecutor"
  /\ tx.sender = auth.signer

====
